---- MODULE Spec2Model ----
(***************************************************************************)
(* DICE identity pipeline of the RoT firmware: the stage0 orchestrator,   *)
(* the handoff memory it fills, the manufacturing step with its flash     *)
(* region and PUF index, and the CDI register bank.                       *)
(*                                                                         *)
(* Byte strings are kept as run lists: a run [v, off, n] stands for the   *)
(* n bytes at offset off of the byte string named by the token v (a       *)
(* sequence of strings).  Distinct tokens name distinct byte strings; the *)
(* token <<"00">> names the all-zero string, of which every slice is the  *)
(* same.  Lengths, offsets and addresses are the program's own.           *)
(***************************************************************************)
EXTENDS Integers, Sequences, FiniteSets, TLC

(***************************** bounds ***************************************)
MaxBoots == 3
NumKeyCodes == 2
NumHostSerials == 2
NumFwImages == 2
NumSamples == 2

(***************************** byte strings *********************************)
ZERO == <<"00">>

Atom(v, off, n) == [v |-> v, off |-> off, n |-> n]

Tok(v, n) == <<Atom(v, 0, n)>>

Zeros(n) == IF n = 0 THEN <<>> ELSE <<Atom(ZERO, 0, n)>>

RECURSIVE BLen(_)
BLen(bs) == IF Len(bs) = 0 THEN 0 ELSE Head(bs).n + BLen(Tail(bs))

RECURSIVE Norm(_)
Norm(bs) ==
    IF Len(bs) < 2 THEN bs
    ELSE LET a == bs[1]
             b == bs[2]
         IN IF a.v = b.v /\ (a.v = ZERO \/ a.off + a.n = b.off)
            THEN Norm(<<[a EXCEPT !.n = a.n + b.n]>> \o SubSeq(bs, 3, Len(bs)))
            ELSE <<a>> \o Norm(Tail(bs))

BCat(x, y) == Norm(x \o y)

RECURSIVE BTake(_, _)
BTake(bs, k) ==
    IF k = 0 \/ Len(bs) = 0 THEN <<>>
    ELSE LET a == Head(bs)
         IN IF a.n <= k THEN <<a>> \o BTake(Tail(bs), k - a.n)
            ELSE <<[a EXCEPT !.n = k]>>

RECURSIVE BDrop(_, _)
BDrop(bs, k) ==
    IF k = 0 \/ Len(bs) = 0 THEN bs
    ELSE LET a == Head(bs)
         IN IF a.n <= k THEN BDrop(Tail(bs), k - a.n)
            ELSE <<[a EXCEPT !.off = IF a.v = ZERO THEN 0 ELSE a.off + k,
                             !.n = a.n - k]>> \o Tail(bs)

\* bytes [start, end) of bs
BSlice(bs, start, end) == BTake(BDrop(bs, start), end - start)

\* dst[start..start+len(src)].copy_from_slice(src)
BWrite(dst, start, src) ==
    BCat(BCat(BTake(dst, start), src), BDrop(dst, start + BLen(src)))

\* the set of tokens of which some byte occurs in bs
BTokens(bs) == {bs[i].v : i \in 1..Len(bs)}

(***************************** handoff layout *******************************)
MEM_START == 1074790400
CERTS_START == MEM_START
CERTS_SIZE == 2048
ALIAS_START == CERTS_START + CERTS_SIZE
ALIAS_SIZE == 2048
SPMEASURE_START == ALIAS_START + ALIAS_SIZE
SPMEASURE_SIZE == 2048
RNG_START == SPMEASURE_START + SPMEASURE_SIZE
RNG_SIZE == 256

\* the USB peripheral SRAM used for the handoff is 0x4000 bytes long
SRAM_SIZE == 16384

\* size of the section the attestation task maps CERTS and ALIAS to
ATTEST_CERTS_LEN == 2560
ATTEST_ALIAS_LEN == 2048

SEED_LENGTH == 32
MAGIC_LENGTH == 16
CERT_BLOB_SIZE == 768
LEAF_CERT_SIZE == 631

HandoffTypes == {"CertData", "AliasData", "SpMeasureData", "RngData"}

EXPECTED_MAGIC(T) ==
    CASE T = "CertData" ->
           Tok(<<"61", "3c", "c9", "2e", "42", "97", "96", "f5",
                 "fa", "c8", "76", "69", "9a", "f2", "07", "bf">>, MAGIC_LENGTH)
      [] T = "AliasData" ->
           Tok(<<"3e", "bc", "3c", "dc", "60", "37", "ab", "86",
                 "f0", "60", "20", "52", "c4", "fd", "d5", "58">>, MAGIC_LENGTH)
      [] T = "SpMeasureData" ->
           Tok(<<"ec", "4a", "c2", "1c", "b5", "aa", "5b", "34",
                 "47", "84", "96", "4a", "0a", "55", "54", "37">>, MAGIC_LENGTH)
      [] T = "RngData" ->
           Tok(<<"b2", "48", "4b", "83", "3f", "ee", "c0", "c0",
                 "ba", "0a", "5b", "6c", "34", "98", "45", "6c">>, MAGIC_LENGTH)

\* a layout that leaves the CERTS region room for one certificate blob only
T_MEM_START_overlapping(T) ==
    CASE T = "CertData" -> CERTS_START
      [] T = "AliasData" -> CERTS_START + CERT_BLOB_SIZE
      [] T = "SpMeasureData" -> SPMEASURE_START
      [] T = "RngData" -> RNG_START

T_MEM_START(T) ==
    CASE T = "CertData" -> CERTS_START
      [] T = "AliasData" -> ALIAS_START
      [] T = "SpMeasureData" -> SPMEASURE_START
      [] T = "RngData" -> RNG_START

T_MEM_SIZE(T) ==
    CASE T = "CertData" -> CERTS_SIZE
      [] T = "AliasData" -> ALIAS_SIZE
      [] T = "SpMeasureData" -> SPMEASURE_SIZE
      [] T = "RngData" -> RNG_SIZE

\* the fields of each blob type in declaration order, with the size hubpack
\* gives each (a fixed-size byte array is serialized as its bytes)
Fields(T) ==
    CASE T = "CertData" ->
           << <<"magic", MAGIC_LENGTH>>,
              <<"device_id", CERT_BLOB_SIZE>>,
              <<"intermediate", CERT_BLOB_SIZE>> >>
      [] T = "AliasData" ->
           << <<"magic", MAGIC_LENGTH>>,
              <<"alias_seed", SEED_LENGTH>>,
              <<"alias_cert", LEAF_CERT_SIZE>>,
              <<"tqdhe_seed", SEED_LENGTH>>,
              <<"tqdhe_cert", LEAF_CERT_SIZE>> >>
      [] T = "SpMeasureData" ->
           << <<"magic", MAGIC_LENGTH>>,
              <<"seed", SEED_LENGTH>>,
              <<"spmeasure_cert", LEAF_CERT_SIZE>> >>
      [] T = "RngData" ->
           << <<"magic", MAGIC_LENGTH>>,
              <<"seed", SEED_LENGTH>> >>

FieldNames(T) == {Fields(T)[i][1] : i \in 1..Len(Fields(T))}

RECURSIVE SumSizes(_, _)
SumSizes(fs, i) == IF i > Len(fs) THEN 0 ELSE fs[i][2] + SumSizes(fs, i + 1)

\* <T as SerializedSize>::MAX_SIZE
MAX_SIZE(T) == SumSizes(Fields(T), 1)

\* offset of field i in the serialized form
FieldOffset(T, i) == SumSizes(Fields(T), 1) - SumSizes(Fields(T), i)

RECURSIVE SerializeFrom(_, _, _)
SerializeFrom(T, t, i) ==
    IF i > Len(Fields(T)) THEN <<>>
    ELSE BCat(t[Fields(T)[i][1]], SerializeFrom(T, t, i + 1))

\* hubpack::serialize: the fields in order, no length prefix, no padding
hubpack_serialize(T, t) == SerializeFrom(T, t, 1)

\* hubpack::deserialize: Err when the source is too short, else the fields
\* cut from the front of src
hubpack_deserialize(T, src) ==
    IF BLen(src) < MAX_SIZE(T)
    THEN [ok |-> FALSE, data |-> [f \in FieldNames(T) |-> <<>>]]
    ELSE [ok |-> TRUE,
          data |-> [f \in FieldNames(T) |->
                      LET i == CHOOSE j \in 1..Len(Fields(T)) : Fields(T)[j][1] = f
                      IN BSlice(src, FieldOffset(T, i),
                                FieldOffset(T, i) + Fields(T)[i][2])]]

\* slice_from_parts(start, size) as a view of the SRAM contents m
slice_from_parts(m, start, size) ==
    BSlice(m, start - MEM_START, start - MEM_START + size)

get_magic(d) == d.magic

None(T) == [some |-> FALSE, data |-> [f \in FieldNames(T) |-> <<>>]]

Some(d) == [some |-> TRUE, data |-> d]

\* from_mem returning whatever deserializes, without comparing the magic
from_mem_unchecked(T, m) ==
    LET src == slice_from_parts(m, T_MEM_START(T), MAX_SIZE(T))
        r == hubpack_deserialize(T, src)
    IN IF r.ok THEN Some(r.data) ELSE None(T)

\* HandoffData::from_mem on SRAM contents m
from_mem(T, m) ==
    LET src == slice_from_parts(m, T_MEM_START(T), MAX_SIZE(T))
        r == hubpack_deserialize(T, src)
    IN IF r.ok
       THEN IF get_magic(r.data) = EXPECTED_MAGIC(T) THEN Some(r.data) ELSE None(T)
       ELSE None(T)

\* store serializing at the base of the SRAM instead of T::MEM_START
store_at_base(T, t, m) ==
    BWrite(m, MEM_START - MEM_START, hubpack_serialize(T, t))

\* Handoff::store: the SRAM contents after serializing t at T::MEM_START
store(T, t, m) ==
    BWrite(m, T_MEM_START(T) - MEM_START, hubpack_serialize(T, t))

(***************************** keys and derivations *************************)
\* Tokens are sequences of strings.  A derived value names its inputs, so
\* two derivations agree exactly when label and inputs agree.

\* the bytes of the CDI read from the registers (to_ne_bytes of each word)
CdiToken(words) == <<"cdi">> \o [i \in 1..Len(words) |-> ToString(words[i])]

\* okm_from_seed_no_extract: HKDF-Expand(Sha3-256, prk = seed, info)
okm_from_seed_no_extract(seed, info) == <<"hkdf-expand", info>> \o seed

DeviceIdOkm_from_cdi(cdi) == okm_from_seed_no_extract(cdi, "identity")

AliasOkm_from_cdi(cdi_l1) == okm_from_seed_no_extract(cdi_l1, "attestation")

SpMeasureOkm_from_cdi(cdi_l1) == okm_from_seed_no_extract(cdi_l1, "sp-measure")

TrustQuorumDheOkm_from_cdi(cdi_l1) ==
    okm_from_seed_no_extract(cdi_l1, "trust-quorum-dhe")

RngSeed_from_cdi(cdi_l1) == okm_from_seed_no_extract(cdi_l1, "rng")

\* CdiL1::new: HKDF extract-and-expand, salt = FWID, ikm = CDI, info = ""
CdiL1_new(cdi, salt) == <<"hkdf", "salt">> \o salt \o <<"ikm">> \o cdi

\* gen_fwid: Sha3_256 over the image bytes
gen_fwid(img) == <<"sha3-256", img>>

\* Keypair::from(seed)
Keypair_from(seed) == [secret |-> seed, public |-> <<"pub">> \o seed]

NoKeypair == [secret |-> <<>>, public |-> <<>>]

RECURSIVE Flat(_)
Flat(bs) ==
    IF Len(bs) = 0 THEN <<>>
    ELSE <<"[">> \o Head(bs).v \o
         <<ToString(Head(bs).off), ToString(Head(bs).n), "]">> \o Flat(Tail(bs))

\* keypair.sign(data): the 64-byte Ed25519 signature
SIGNATURE_LENGTH == 64
PUBLICKEY_LENGTH == 32

Keypair_sign(keypair, data) ==
    Tok(<<"sig">> \o keypair.secret \o <<"msg">> \o Flat(data), SIGNATURE_LENGTH)

\* tokens whose bytes are secret: the CDIs, the OKMs / seeds, the PUF key
IsSecret(tok) ==
    Len(tok) > 0 /\ tok[1] \in {"cdi", "hkdf", "hkdf-expand", "puf-key"}

(***************************** certificates *********************************)
SN_LENGTH == 11

\* SerialNumber: the platform serial number as SN_LENGTH bytes
SerialNumber(name) == Tok(<<"sn", name>>, SN_LENGTH)

\* the placeholder of the self-signed manufacturing
PlaceholderSN == SerialNumber("0123456789ab")

U8(n) == Tok(<<"u8", ToString(n)>>, 1)

U8Val(b) == CHOOSE n \in 0..255 : b = U8(n)

\* CertSerialNumber::next: hands out the current value, then advances
CertSerialNumber_next(c) == [ret |-> c, next |-> (c + 1) % 256]

CertSerialNumber_default == 0

\* offsets of the DeviceId template and of the leaf templates
DEVICEID_SIZE == 565
\* templates whose PUB range is one byte short of a public key
TmplRanges_short_pub(kind) ==
    IF kind = "deviceid"
    THEN [SIZE |-> DEVICEID_SIZE,
          SERIAL_NUMBER |-> <<15, 16>>, ISSUER_SN |-> <<169, 180>>,
          SUBJECT_SN |-> <<360, 371>>, PUB |-> <<383, 414>>,
          SIG |-> <<501, 565>>, SIGNDATA |-> <<4, 491>>, FWID |-> <<0, 0>>]
    ELSE [SIZE |-> LEAF_CERT_SIZE,
          SERIAL_NUMBER |-> <<15, 16>>, ISSUER_SN |-> <<169, 180>>,
          SUBJECT_SN |-> <<361, 372>>, PUB |-> <<384, 415>>,
          SIG |-> <<567, 631>>, SIGNDATA |-> <<4, 557>>, FWID |-> <<525, 557>>]

TmplRanges(kind) ==
    IF kind = "deviceid"
    THEN [SIZE |-> DEVICEID_SIZE,
          SERIAL_NUMBER |-> <<15, 16>>, ISSUER_SN |-> <<169, 180>>,
          SUBJECT_SN |-> <<360, 371>>, PUB |-> <<383, 415>>,
          SIG |-> <<501, 565>>, SIGNDATA |-> <<4, 491>>, FWID |-> <<0, 0>>]
    ELSE [SIZE |-> LEAF_CERT_SIZE,
          SERIAL_NUMBER |-> <<15, 16>>, ISSUER_SN |-> <<169, 180>>,
          SUBJECT_SN |-> <<361, 372>>, PUB |-> <<384, 416>>,
          SIG |-> <<567, 631>>, SIGNDATA |-> <<4, 557>>, FWID |-> <<525, 557>>]

\* the template bytes of the certificate named name
CERT_TMPL(kind, name) == Tok(<<"CERT_TMPL", name>>, TmplRanges(kind).SIZE)

\* self.0[range].copy_from_slice(src); a length mismatch is a panic, which
\* the callers below never provoke
copy_from_slice(buf, range, src) == BWrite(buf, range[1], src)

\* the panic conditions of self.0[range].copy_from_slice(src): the slice
\* index out of the buffer, or a source of another length than the slice
copy_from_slice_panics(buf, range, src) ==
    \/ range[1] > range[2]
    \/ range[2] > BLen(buf)
    \/ BLen(src) # range[2] - range[1]

set_serial_number(kind, buf, sn) ==
    copy_from_slice(buf, TmplRanges(kind).SERIAL_NUMBER, U8(sn))

set_issuer_sn(kind, buf, sn) == copy_from_slice(buf, TmplRanges(kind).ISSUER_SN, sn)

\* a set_subject_sn that indexes with the issuer's range
set_subject_sn_issuer_range(kind, buf, sn) ==
    copy_from_slice(buf, TmplRanges(kind).ISSUER_SN, sn)

set_subject_sn(kind, buf, sn) == copy_from_slice(buf, TmplRanges(kind).SUBJECT_SN, sn)

set_pub(kind, buf, pubkey) ==
    copy_from_slice(buf, TmplRanges(kind).PUB, Tok(pubkey, PUBLICKEY_LENGTH))

set_fwid(kind, buf, fwid) ==
    copy_from_slice(buf, TmplRanges(kind).FWID, Tok(fwid, SEED_LENGTH))

set_sig(kind, buf, sig) == copy_from_slice(buf, TmplRanges(kind).SIG, sig)

get_signdata(kind, buf) ==
    BSlice(buf, TmplRanges(kind).SIGNDATA[1], TmplRanges(kind).SIGNDATA[2])

get_serial_number(kind, buf) ==
    BSlice(buf, TmplRanges(kind).SERIAL_NUMBER[1], TmplRanges(kind).SERIAL_NUMBER[2])

\* a sign over every byte in front of the signature
Cert_sign_to_sig(kind, buf, keypair) ==
    set_sig(kind, buf, Keypair_sign(keypair, BTake(buf, TmplRanges(kind).SIG[1])))

\* Cert::sign
Cert_sign(kind, buf, keypair) ==
    set_sig(kind, buf, Keypair_sign(keypair, get_signdata(kind, buf)))

\* DeviceIdCertBuilder::new(serial, sn, public).sign(keypair)
DeviceIdCertBuilder(name, serial, sn, public, keypair) ==
    Cert_sign("deviceid",
        set_pub("deviceid",
            set_subject_sn("deviceid",
                set_issuer_sn("deviceid",
                    set_serial_number("deviceid", CERT_TMPL("deviceid", name), serial),
                    sn),
                sn),
            public),
        keypair)

\* {Alias,TrustQuorumDhe,SpMeasure}CertBuilder::new(serial, sn, public, fwid)
\* .sign(keypair)
LeafCertBuilder(name, serial, sn, public, fwid, keypair) ==
    Cert_sign("leaf",
        set_fwid("leaf",
            set_pub("leaf",
                set_subject_sn("leaf",
                    set_issuer_sn("leaf",
                        set_serial_number("leaf", CERT_TMPL("leaf", name), serial),
                        sn),
                    sn),
                public),
            fwid),
        keypair)

\* CertBlob::from(cert): the certificate at the front of a zeroed blob
CertBlob_from(cert) == BCat(cert, Zeros(CERT_BLOB_SIZE - BLen(cert)))

CertBlob_default == Zeros(CERT_BLOB_SIZE)

CertData_new(device_id, intermediate) ==
    [magic |-> EXPECTED_MAGIC("CertData"),
     device_id |-> device_id, intermediate |-> intermediate]

AliasData_new(alias_seed, alias_cert, tqdhe_seed, tqdhe_cert) ==
    [magic |-> EXPECTED_MAGIC("AliasData"),
     alias_seed |-> Tok(alias_seed, SEED_LENGTH), alias_cert |-> alias_cert,
     tqdhe_seed |-> Tok(tqdhe_seed, SEED_LENGTH), tqdhe_cert |-> tqdhe_cert]

SpMeasureData_new(seed, spmeasure_cert) ==
    [magic |-> EXPECTED_MAGIC("SpMeasureData"),
     seed |-> Tok(seed, SEED_LENGTH), spmeasure_cert |-> spmeasure_cert]

RngData_new(seed) ==
    [magic |-> EXPECTED_MAGIC("RngData"), seed |-> Tok(seed, SEED_LENGTH)]

(***************************** state *****************************************)
VARIABLES
    variant,          \* which manufacturing module the image is built with
    pc,               \* position of stage0's run
    boots,            \* number of resets so far
    cdi_reg,          \* the CDI register bank, 8 words
    rom_cdi,          \* what the boot ROM left in the bank at this boot
    mem,              \* the handoff SRAM, SRAM_SIZE bytes from MEM_START
    flash,            \* the DICE_FLASH region
    puf,              \* block bit of KEY_INDEX and the lock of the block register
    image,            \* the firmware image being booted
    cdi,              \* run's local: the CDI read (<<>> when none)
    deviceid_keypair, \* run's local
    persistid_keypair,\* the manufacturing step's identity keypair
    serial_numbers,   \* run's local: cert serial counter and platform serial
    mfg_certs,        \* keycode and certificates of the manufacturing step
    fwid,             \* run's local
    cdi_l1,           \* run's local
    stored,           \* blob types stored during this boot
    mfg_path,         \* how this boot obtained the manufacturing state
    uart_ran,         \* the UART manufacturing exchange ran during this boot
    flash_writes,        \* number of to_flash executions (erase + write) so far
    late_read,        \* result of a read of the CDI after the first one
    h_op,             \* handoff exerciser: the last operation
    h_T,              \* handoff exerciser: its blob type
    h_t,              \* handoff exerciser: per type, the last value stored
    h_res,            \* handoff exerciser: the value loaded
    mfg_dname_sn,     \* DeviceIdSerialMfg::run's local dname_sn (<<>> when none)
    mfg_csr,          \* DeviceIdSerialMfg::run's local csr_blob (NoCsr when none)
    rx,               \* the outcome of the last read_until and decode
    tx,               \* the messages written to the UART since that read
    rx_log,           \* the messages that advanced the exchange, in order
    l_mode,           \* library exerciser: the operation family exercised
    l_op,             \* library exerciser: the last operation
    l_steps,          \* library exerciser: operations applied so far
    c_kind,           \* certificate exerciser: the template of the buffer
    c_buf,            \* certificate exerciser: the certificate buffer
    c_arg,            \* certificate exerciser: the value last supplied
    c_key,            \* certificate exerciser: the keypair last signed with
    c_panic,          \* certificate exerciser: a setter has panicked
    l_res,            \* library exerciser: result of the manufacturing call
    r_len,            \* RNG exerciser: dst.len()
    r_dst,            \* RNG exerciser: per byte of dst, the times written
    r_res,            \* RNG exerciser: how try_fill_bytes ended
    hw,               \* hardware RNG: the init or read call in progress
    srv,              \* RNG server: its generator, the lease, the last fill
    att,              \* attest server: its handoff data and the last call
    rotr,             \* RoT-R server: its measurement log and the last call
    util,             \* attest client: the retrieval in progress
    rd,               \* UART reader: the read_until call in progress
    cv                \* RngError conversion: the call in progress

mvars == <<mfg_dname_sn, mfg_csr, rx, tx, rx_log>>

svars == <<variant, pc, boots, cdi_reg, rom_cdi, flash, puf, image, cdi,
           deviceid_keypair, persistid_keypair, serial_numbers, mfg_certs,
           fwid, cdi_l1, stored, mfg_path, uart_ran, flash_writes, late_read,
           mvars>>

hvars == <<h_op, h_T, h_t, h_res>>

yvars == <<rotr, util, rd, cv>>

xvars == <<hw, srv, att, yvars>>

lvars == <<l_mode, l_op, l_steps, c_kind, c_buf, c_arg, c_key, c_panic, l_res,
           r_len, r_dst, r_res, xvars>>

vars == <<svars, mem, hvars, lvars>>

Variants == {"dice_self", "dice_mfg", "mfg_self", "mfg_usart"}

KEY_INDEX == 1
CDI_WORDS == 8
WORD_BYTES == 4

\* values the boot ROM leaves in the CDI registers: DICE disabled (all
\* zero), the well-known CDI 0x2a repeated, and a CDI whose only non-zero
\* word is the last
CdiImages ==
    { [i \in 1..CDI_WORDS |-> 0],
      [i \in 1..CDI_WORDS |-> 707406378],
      [i \in 1..CDI_WORDS |-> IF i = CDI_WORDS THEN 1 ELSE 0] }

FwImages == {"image" \o ToString(i) : i \in 1..NumFwImages}

KeyCodes == {<<"keycode", ToString(i)>> : i \in 1..NumKeyCodes}

HostSerials == {SerialNumber("host" \o ToString(i)) : i \in 1..NumHostSerials}

NoSerialNumbers == [cert_serial_number |-> 0, serial_number |-> <<>>]

NoCerts == [keycode |-> <<>>, persistid_cert |-> <<>>, intermediate_cert |-> <<>>]

ErasedFlash ==
    [programmed |-> FALSE,
     state |-> [keycode |-> <<>>, serial_number |-> <<>>,
                id_cert |-> <<>>, intermediate_cert |-> <<>>]]

\* no manufacturing exchange on the UART has taken place
\* no CSR built
NoCsr == [cn |-> <<>>, pub |-> <<>>, sig |-> <<>>]

MIdle ==
    /\ mfg_dname_sn = <<>>
    /\ mfg_csr = NoCsr
    /\ rx = "none"
    /\ tx = <<>>
    /\ rx_log = <<>>

\* no task of the running system has started
YIdle == rotr = <<>> /\ util = <<>> /\ rd = <<>> /\ cv = <<>>

XIdle ==
    /\ hw = <<>>
    /\ srv = <<>>
    /\ att = <<>>
    /\ YIdle

\* the library exerciser at rest
LibIdle ==
    /\ l_mode = "none"
    /\ l_op = "none"
    /\ l_steps = 0
    /\ c_kind = "deviceid"
    /\ c_buf = <<>>
    /\ c_arg = <<>>
    /\ c_key = NoKeypair
    /\ c_panic = FALSE
    /\ l_res = <<>>
    /\ r_len = 0
    /\ r_dst = <<>>
    /\ r_res = "none"

LIdle ==
    /\ XIdle
    /\ LibIdle

\* the state of the CPU-local variables and of the volatile peripherals
\* after a reset
ResetLocals ==
    /\ MIdle
    /\ pc = "start"
    /\ mem = Zeros(SRAM_SIZE)
    /\ puf = [blocked |-> FALSE, locked |-> FALSE]
    /\ cdi = <<>>
    /\ deviceid_keypair = NoKeypair
    /\ persistid_keypair = NoKeypair
    /\ serial_numbers = NoSerialNumbers
    /\ mfg_certs = NoCerts
    /\ fwid = <<>>
    /\ cdi_l1 = <<>>
    /\ stored = {}
    /\ mfg_path = "none"
    /\ uart_ran = FALSE
    /\ late_read = "none"

HIdle ==
    /\ h_op = "none"
    /\ h_T = "CertData"
    /\ h_t = [T \in HandoffTypes |-> [valid |-> FALSE, v |-> None(T).data]]
    /\ h_res = None("CertData")

Init ==
    /\ variant \in Variants
    /\ boots = 0
    /\ cdi_reg \in CdiImages
    /\ rom_cdi = cdi_reg
    /\ image \in FwImages
    /\ flash = ErasedFlash
    /\ flash_writes = 0
    /\ ResetLocals
    /\ HIdle
    /\ LIdle

(***************************** CDI registers ********************************)
RECURSIVE clear_loop(_, _)
clear_loop(regs, offset) ==
    IF offset < SEED_LENGTH
    THEN clear_loop([regs EXCEPT ![(offset \div WORD_BYTES) + 1] = 0],
                    offset + WORD_BYTES)
    ELSE regs

\* a clear whose loop bound counts words where the offset counts bytes
clear_registers_short(regs) ==
    [i \in 1..CDI_WORDS |-> IF (i - 1) * WORD_BYTES < CDI_WORDS THEN 0 ELSE regs[i]]

\* Cdi::clear_registers
clear_registers(regs) == clear_loop(regs, 0)

\* Cdi::new deciding on the first register only
Cdi_new_first_word(regs) ==
    [regs |-> clear_registers(regs),
     ret  |-> IF regs[1] # 0 THEN CdiToken(regs) ELSE <<>>]

\* Cdi::new: read the registers, clear them, Some unless every byte is zero
Cdi_new(regs) ==
    [regs |-> clear_registers(regs),
     ret  |-> IF \E i \in 1..CDI_WORDS : regs[i] # 0 THEN CdiToken(regs) ELSE <<>>]

(***************************** stage0: run **********************************)
\* a step of run outside the manufacturing exchange
HUnchanged == UNCHANGED <<hvars, mvars, lvars>>

\* a step of run that takes part in the manufacturing exchange
ExUnchanged == UNCHANGED <<hvars, lvars>>

\* run, up to the CDI read: Handoff::turn_on, Cdi::from_reg; None returns
run_start ==
    /\ pc = "start"
    /\ LET r == Cdi_new(cdi_reg)
       IN /\ cdi_reg' = r.regs
          /\ cdi' = r.ret
          /\ pc' = IF Len(r.ret) = 0 THEN "returned" ELSE "keypair"
    /\ UNCHANGED <<variant, rom_cdi, boots, mem, flash, puf, image, deviceid_keypair,
                   persistid_keypair, serial_numbers, mfg_certs, fwid, cdi_l1,
                   stored, mfg_path, uart_ran, flash_writes, late_read>>
    /\ HUnchanged

\* gen_deviceid_keypair
gen_deviceid_keypair ==
    /\ pc = "keypair"
    /\ deviceid_keypair' = Keypair_from(DeviceIdOkm_from_cdi(cdi))
    /\ pc' = "mfg"
    /\ UNCHANGED <<variant, rom_cdi, boots, cdi_reg, mem, flash, puf, image, cdi,
                   persistid_keypair, serial_numbers, mfg_certs, fwid, cdi_l1,
                   stored, mfg_path, uart_ran, flash_writes, late_read>>
    /\ HUnchanged

\* any read of the CDI after run's (a second Cdi::new in the same boot)
late_cdi_read ==
    /\ pc \notin {"start"}
    /\ late_read = "none"
    /\ LET r == Cdi_new(cdi_reg)
       IN /\ cdi_reg' = r.regs
          /\ late_read' = IF Len(r.ret) = 0 THEN "None" ELSE "Some"
    /\ UNCHANGED <<variant, rom_cdi, pc, boots, mem, flash, puf, image, cdi,
                   deviceid_keypair, persistid_keypair, serial_numbers,
                   mfg_certs, fwid, cdi_l1, stored, mfg_path, uart_ran,
                   flash_writes>>
    /\ HUnchanged

\* a reset: the boot ROM reloads the CDI registers, the SRAM and the PUF
\* block register come up cleared, the flash keeps its contents
reset ==
    /\ boots < MaxBoots
    /\ boots' = boots + 1
    /\ cdi_reg' \in CdiImages
    /\ rom_cdi' = cdi_reg'
    /\ pc' = "start"
    /\ mem' = Zeros(SRAM_SIZE)
    /\ puf' = [blocked |-> FALSE, locked |-> FALSE]
    /\ cdi' = <<>>
    /\ deviceid_keypair' = NoKeypair
    /\ persistid_keypair' = NoKeypair
    /\ serial_numbers' = NoSerialNumbers
    /\ mfg_certs' = NoCerts
    /\ fwid' = <<>>
    /\ cdi_l1' = <<>>
    /\ stored' = {}
    /\ mfg_path' = "none"
    /\ uart_ran' = FALSE
    /\ late_read' = "none"
    /\ mfg_dname_sn' = <<>>
    /\ mfg_csr' = NoCsr
    /\ rx' = "none"
    /\ tx' = <<>>
    /\ rx_log' = <<>>
    /\ UNCHANGED <<variant, image, flash, flash_writes>>
    /\ ExUnchanged

(***************************** PUF and flash *********************************)
Puf_is_index_blocked(p) == p.blocked

\* block_index: sets the block bit unless the register is locked; reports
\* whether the index is blocked afterwards
Puf_block_index(p) ==
    IF p.locked THEN [puf |-> p, ok |-> p.blocked]
    ELSE [puf |-> [p EXCEPT !.blocked = TRUE], ok |-> TRUE]

Puf_lock_indices_low(p) == [p EXCEPT !.locked = TRUE]

\* puf.get_key(keycode): the key the keycode wraps
Puf_get_key(keycode) == <<"puf-key">> \o keycode

\* DiceState::is_programmed
is_programmed(f) == f.programmed

\* DiceState::to_flash: erase the region, then write the serialized state
to_flash(dice_state) == [programmed |-> TRUE, state |-> dice_state]

\* DiceState::from_flash / try_from
from_flash(f) == f.state

(***************************** manufacturing: dice.rs ***********************)
\* SerialNumber::from_str: the bytes of the string when it has exactly
\* SN_LENGTH of them, Err(SNError::BadSize) otherwise
SerialNumber_from_str(str) ==
    IF Len(str) = SN_LENGTH
    THEN [ok |-> TRUE, sn |-> SerialNumber(str)]
    ELSE [ok |-> FALSE, sn |-> <<>>]

\* DeviceIdSelfMfg::run(keypair) of mfg.rs; expect on the Err of from_str
\* is a panic
DeviceIdSelfMfg_run(keypair) ==
    LET n == CertSerialNumber_next(CertSerialNumber_default)
        r == SerialNumber_from_str("0123456789ab")
    IN IF ~r.ok
       THEN [panicked |-> TRUE,
             cert_serial_number |-> CertSerialNumber_default,
             serial_number |-> <<>>,
             device_id |-> <<>>,
             intermediate |-> <<>>]
       ELSE [panicked |-> FALSE,
             cert_serial_number |-> n.next,
             serial_number |-> r.sn,
             device_id |->
                CertBlob_from(DeviceIdCertBuilder("deviceid-self", n.ret, r.sn,
                                                  keypair.public, keypair)),
             intermediate |-> CertBlob_default]

\* the run of the manufacturing object that dice.rs (DeviceIdSelfMfg::new)
\* and dice_mfg_self.rs (SelfMfg::new) construct over a keypair: the
\* placeholder serial number, a certificate self-signed by the keypair, no
\* intermediate certificate
SelfMfg_run(keypair) ==
    LET n == CertSerialNumber_next(CertSerialNumber_default)
        dname_sn == PlaceholderSN
        deviceid_cert ==
            DeviceIdCertBuilder("deviceid-self", n.ret, dname_sn,
                                keypair.public, keypair)
    IN [cert_serial_number |-> n.next,
        serial_number |-> dname_sn,
        device_id |-> CertBlob_from(deviceid_cert),
        intermediate |-> CertBlob_default]

\* DeviceIdSerialMfg::run once the host has sent the serial number and
\* acknowledged the CSR: the certificate chain is still the empty default
DeviceIdSerialMfg_run(dname_sn) ==
    [cert_serial_number |-> CertSerialNumber_default,
     serial_number |-> dname_sn,
     device_id |-> CertBlob_default,
     intermediate |-> CertBlob_default]

MfgUnchanged ==
    UNCHANGED <<variant, rom_cdi, boots, cdi_reg, image, cdi, deviceid_keypair, fwid,
                cdi_l1, late_read>>

\* gen_mfg_artifacts, feature dice-self
dice_gen_mfg_artifacts_self ==
    /\ pc = "mfg" /\ variant = "dice_self"
    /\ LET mfg_state == SelfMfg_run(deviceid_keypair)
           cert_data == CertData_new(mfg_state.device_id, mfg_state.intermediate)
       IN /\ mem' = store("CertData", cert_data, mem)
          /\ serial_numbers' =
                [cert_serial_number |-> mfg_state.cert_serial_number,
                 serial_number |-> mfg_state.serial_number]
    /\ stored' = stored \cup {"CertData"}
    /\ mfg_path' = "self"
    /\ pc' = "fwid"
    /\ UNCHANGED <<flash, puf, persistid_keypair, mfg_certs, uart_ran,
                   flash_writes>>
    /\ MfgUnchanged /\ HUnchanged

\* gen_mfg_artifacts, feature dice-mfg, flash programmed:
\* gen_artifacts_from_flash
dice_gen_artifacts_from_flash ==
    /\ pc = "mfg" /\ variant = "dice_mfg"
    /\ is_programmed(flash)
    /\ LET dice_state == from_flash(flash)
           cert_data == CertData_new(dice_state.id_cert,
                                     dice_state.intermediate_cert)
       IN /\ mem' = store("CertData", cert_data, mem)
          /\ serial_numbers' =
                [cert_serial_number |-> CertSerialNumber_default,
                 serial_number |-> dice_state.serial_number]
    /\ stored' = stored \cup {"CertData"}
    /\ mfg_path' = "flash"
    /\ pc' = "fwid"
    /\ UNCHANGED <<flash, puf, persistid_keypair, mfg_certs, uart_ran,
                   flash_writes>>
    /\ MfgUnchanged /\ HUnchanged

\* gen_mfg_artifacts, feature dice-mfg, flash not programmed:
\* gen_artifacts_from_mfg up to the blocking exchange on the UART
dice_gen_artifacts_from_mfg_begin ==
    /\ pc = "mfg" /\ variant = "dice_mfg"
    /\ ~is_programmed(flash)
    /\ uart_ran' = TRUE
    /\ mfg_path' = "mfg"
    /\ pc' = "serial_warmup"
    /\ UNCHANGED <<mem, flash, puf, persistid_keypair, serial_numbers,
                   mfg_certs, stored, flash_writes>>
    /\ MfgUnchanged /\ HUnchanged

(***************************** DeviceIdSerialMfg::run ***********************)
\* a message as the driver encodes it: its variant and the CSR it carries
\* (NoCsr in every variant but Csr)
Msg(kind, csr) == [msg |-> kind, csr |-> csr]

\* what one read_until and decode can give: Err of the transport (Frame,
\* Parity, Noise, BufFull), a frame that does not decode, or a message
FrameKinds ==
    {"transport_error", "decode_error", "HowYouDoin", "NotBad", "Break",
     "PlzSendCsr", "CsrAck"}

Frames ==
    {[kind |-> k, sn |-> <<>>] : k \in FrameKinds}
        \cup {[kind |-> "SerialNumber", sn |-> sn] : sn \in HostSerials}

\* Csr::new(cn): a CSR by its fields, the common name filled in
Csr_new(cn) ==
    [cn |-> cn, pub |-> Zeros(PUBLICKEY_LENGTH), sig |-> Zeros(SIGNATURE_LENGTH)]

Csr_set_pub(csr, pubkey) == [csr EXCEPT !.pub = Tok(pubkey, PUBLICKEY_LENGTH)]

Csr_set_sig(csr, sig) == [csr EXCEPT !.sig = sig]

\* the certification request info: template bytes, common name, public key
Csr_get_signdata(csr) == Tok(<<"CSR_TMPL">>, 1) \o csr.cn \o csr.pub

\* Csr::sign: set_pub, sign the sign data, set_sig
Csr_sign(csr, keypair) ==
    Csr_set_sig(Csr_set_pub(csr, keypair.public),
                Keypair_sign(keypair,
                             Csr_get_signdata(Csr_set_pub(csr, keypair.public))))

\* serial_warmup, one iteration of its loop on the frame read
serial_warmup(f) ==
    CASE f.kind \in {"transport_error", "decode_error"} ->
           [reply |-> <<Msg("NotGreat", NoCsr)>>, done |-> FALSE]
      [] f.kind = "HowYouDoin" ->
           [reply |-> <<Msg("NotBad", NoCsr)>>, done |-> FALSE]
      [] f.kind = "Break" -> [reply |-> <<>>, done |-> TRUE]
      [] OTHER -> [reply |-> <<>>, done |-> FALSE]

\* get_dname_sn, one iteration of its loop on the frame read
get_dname_sn(f) ==
    CASE f.kind \in {"transport_error", "decode_error"} ->
           [reply |-> <<Msg("NotGreat", NoCsr)>>, done |-> FALSE]
      [] f.kind = "SerialNumber" -> [reply |-> <<>>, done |-> TRUE]
      [] OTHER -> [reply |-> <<>>, done |-> FALSE]

\* certify_csr, first loop: what ends it
certify_csr_plz(f) == f.kind = "PlzSendCsr"

\* a second loop that no message ends
certify_csr_ack_never(f) == FALSE

\* certify_csr, second loop: what ends it
certify_csr_ack(f) == f.kind = "CsrAck"

SerialUnchanged ==
    /\ UNCHANGED <<variant, boots, cdi_reg, rom_cdi, flash, puf, image, cdi,
                   deviceid_keypair, persistid_keypair, serial_numbers,
                   mfg_certs, fwid, cdi_l1, stored, mfg_path, uart_ran,
                   flash_writes, late_read, mem>>
    /\ ExUnchanged

\* run in serial_warmup, reading frame f
mfg_serial_warmup(f) ==
    /\ pc = "serial_warmup" /\ variant = "dice_mfg"
    /\ rx' = f.kind
    /\ tx' = serial_warmup(f).reply
    /\ pc' = IF serial_warmup(f).done THEN "get_dname_sn" ELSE pc
    /\ rx_log' = IF serial_warmup(f).done THEN Append(rx_log, f.kind) ELSE rx_log
    /\ UNCHANGED <<mfg_dname_sn, mfg_csr>>
    /\ SerialUnchanged

\* run in get_dname_sn, reading frame f; with the serial number, run signs
\* the CSR and enters certify_csr
mfg_get_dname_sn(f) ==
    /\ pc = "get_dname_sn" /\ variant = "dice_mfg"
    /\ rx' = f.kind
    /\ tx' = get_dname_sn(f).reply
    /\ mfg_dname_sn' = IF get_dname_sn(f).done THEN f.sn ELSE mfg_dname_sn
    /\ mfg_csr' = IF get_dname_sn(f).done
                  THEN Csr_sign(Csr_new(f.sn), deviceid_keypair)
                  ELSE mfg_csr
    /\ rx_log' = IF get_dname_sn(f).done THEN Append(rx_log, f.kind) ELSE rx_log
    /\ pc' = IF get_dname_sn(f).done THEN "certify_csr_send_ack" ELSE pc
    /\ SerialUnchanged

\* certify_csr, first loop: the SerialNumberAck it writes before each read
mfg_send_ack ==
    /\ pc = "certify_csr_send_ack" /\ variant = "dice_mfg"
    /\ tx' = <<Msg("SerialNumberAck", NoCsr)>>
    /\ pc' = "certify_csr_wait_plz"
    /\ UNCHANGED <<mfg_dname_sn, mfg_csr, rx, rx_log>>
    /\ SerialUnchanged

\* certify_csr, first loop, reading frame f
mfg_wait_plz(f) ==
    /\ pc = "certify_csr_wait_plz" /\ variant = "dice_mfg"
    /\ rx' = f.kind
    /\ tx' = <<>>
    /\ pc' = IF certify_csr_plz(f) THEN "certify_csr_send_csr"
             ELSE "certify_csr_send_ack"
    /\ rx_log' = IF certify_csr_plz(f) THEN Append(rx_log, f.kind) ELSE rx_log
    /\ UNCHANGED <<mfg_dname_sn, mfg_csr>>
    /\ SerialUnchanged

\* certify_csr, second loop: the Csr it writes before each read
mfg_send_csr ==
    /\ pc = "certify_csr_send_csr" /\ variant = "dice_mfg"
    /\ tx' = <<Msg("Csr", mfg_csr)>>
    /\ pc' = "certify_csr_wait_ack"
    /\ UNCHANGED <<mfg_dname_sn, mfg_csr, rx, rx_log>>
    /\ SerialUnchanged

\* certify_csr, second loop, reading frame f; with CsrAck run returns
mfg_wait_ack(f) ==
    /\ pc = "certify_csr_wait_ack" /\ variant = "dice_mfg"
    /\ rx' = f.kind
    /\ tx' = <<>>
    /\ pc' = IF certify_csr_ack(f) THEN "uart" ELSE "certify_csr_send_csr"
    /\ rx_log' = IF certify_csr_ack(f) THEN Append(rx_log, f.kind) ELSE rx_log
    /\ UNCHANGED <<mfg_dname_sn, mfg_csr>>
    /\ SerialUnchanged

\* the driver reads whatever arrives
mfg_read ==
    \E f \in Frames :
        \/ mfg_serial_warmup(f)
        \/ mfg_get_dname_sn(f)
        \/ mfg_wait_plz(f)
        \/ mfg_wait_ack(f)

\* the driver writes what its loop sends before reading
mfg_write == mfg_send_ack \/ mfg_send_csr

\* the host sends the message the driver is waiting for
HostSendsRequired ==
    \/ mfg_serial_warmup([kind |-> "Break", sn |-> <<>>])
    \/ \E sn \in HostSerials :
          mfg_get_dname_sn([kind |-> "SerialNumber", sn |-> sn])
    \/ mfg_wait_plz([kind |-> "PlzSendCsr", sn |-> <<>>])
    \/ mfg_wait_ack([kind |-> "CsrAck", sn |-> <<>>])

\* gen_artifacts_from_mfg from the return of the exchange: to_flash, store
dice_gen_artifacts_from_mfg_end ==
    /\ pc = "uart" /\ variant = "dice_mfg"
    /\ \E sn \in {mfg_dname_sn} :
         LET mfg_state == DeviceIdSerialMfg_run(sn)
             dice_state == [keycode |-> <<>>,
                            serial_number |-> mfg_state.serial_number,
                            id_cert |-> mfg_state.device_id,
                            intermediate_cert |-> mfg_state.intermediate]
             cert_data == CertData_new(dice_state.id_cert,
                                       dice_state.intermediate_cert)
         IN /\ flash' = to_flash(dice_state)
            /\ mem' = store("CertData", cert_data, mem)
            /\ serial_numbers' =
                  [cert_serial_number |-> mfg_state.cert_serial_number,
                   serial_number |-> mfg_state.serial_number]
    /\ flash_writes' = flash_writes + 1
    /\ stored' = stored \cup {"CertData"}
    /\ pc' = "fwid"
    /\ UNCHANGED <<puf, persistid_keypair, mfg_certs, uart_ran, mfg_path>>
    /\ MfgUnchanged /\ HUnchanged

(***************************** manufacturing: dice_mfg_self.rs **************)
\* gen_mfg_artifacts of dice_mfg_self.rs; SelfMfg::new(&id_keypair).run() is
\* the self-signed manufacturing over the PUF-derived identity keypair
mfg_self_gen_mfg_artifacts ==
    /\ pc = "mfg" /\ variant = "mfg_self"
    /\ \E keycode \in KeyCodes, puf_ok \in BOOLEAN :
         IF ~puf_ok
         THEN /\ pc' = "panic"
              /\ UNCHANGED <<mem, persistid_keypair, serial_numbers, mfg_certs,
                             stored, mfg_path>>
         ELSE \E mfg_state \in
                    {SelfMfg_run(Keypair_from(Puf_get_key(keycode)))} :
              LET seed == Puf_get_key(keycode)
                  id_keypair == Keypair_from(seed)
                  n == CertSerialNumber_next(mfg_state.cert_serial_number)
                  deviceid_cert ==
                      DeviceIdCertBuilder("deviceid", n.ret,
                                          mfg_state.serial_number,
                                          deviceid_keypair.public, id_keypair)
                  cert_data == CertData_new(CertBlob_from(deviceid_cert),
                                            mfg_state.intermediate)
              IN /\ mem' = store("CertData", cert_data, mem)
                 /\ persistid_keypair' = id_keypair
                 /\ mfg_certs' = [keycode |-> keycode,
                                  persistid_cert |-> mfg_state.device_id,
                                  intermediate_cert |-> mfg_state.intermediate]
                 /\ serial_numbers' =
                       [cert_serial_number |-> CertSerialNumber_default,
                        serial_number |-> mfg_state.serial_number]
                 /\ stored' = stored \cup {"CertData"}
                 /\ mfg_path' = "self"
                 /\ pc' = "fwid"
    /\ UNCHANGED <<flash, puf, uart_ran, flash_writes>>
    /\ MfgUnchanged /\ HUnchanged

(***************************** manufacturing: dice_mfg_usart.rs *************)
\* SerialMfg::run once the host has sent the serial number, certified the
\* CSR and sent the intermediate certificate
SerialMfg_run(sn, id_keypair) ==
    [serial_number |-> sn,
     persistid_cert |->
        CertBlob_from(Tok(<<"host-cert", "persistid">> \o id_keypair.public,
                          DEVICEID_SIZE)),
     intermediate_cert |->
        CertBlob_from(Tok(<<"host-cert", "intermediate">>, DEVICEID_SIZE))]

\* gen_mfg_artifacts_usart always taking the manufacturing branch
usart_take_flash_never(f) == FALSE

\* gen_mfg_artifacts_usart: the branch on DiceState::is_programmed
usart_take_flash(f) == is_programmed(f)

\* gen_artifacts_from_mfg up to the blocking SerialMfg::run
usart_gen_artifacts_from_mfg_begin ==
    /\ pc = "mfg" /\ variant = "mfg_usart"
    /\ ~usart_take_flash(flash)
    /\ mfg_path' = "mfg"
    /\ \E keycode \in KeyCodes, puf_ok \in BOOLEAN :
         LET b == Puf_block_index(puf)
         IN IF Puf_is_index_blocked(puf) \/ ~puf_ok \/ ~b.ok
            THEN /\ pc' = "panic"
                 /\ UNCHANGED <<puf, persistid_keypair, mfg_certs, uart_ran>>
            ELSE /\ puf' = Puf_lock_indices_low(b.puf)
                 /\ persistid_keypair' = Keypair_from(Puf_get_key(keycode))
                 /\ mfg_certs' = [mfg_certs EXCEPT !.keycode = keycode]
                 /\ uart_ran' = TRUE
                 /\ pc' = "uart"
    /\ UNCHANGED <<mem, flash, serial_numbers, stored, flash_writes>>
    /\ MfgUnchanged /\ HUnchanged

\* gen_artifacts_from_mfg from the return of SerialMfg::run: to_flash and
\* the MfgResult
usart_gen_artifacts_from_mfg_end ==
    /\ pc = "uart" /\ variant = "mfg_usart"
    /\ \E sn \in HostSerials :
         LET dice_data == SerialMfg_run(sn, persistid_keypair)
             dice_state == [keycode |-> mfg_certs.keycode,
                            serial_number |-> dice_data.serial_number,
                            id_cert |-> dice_data.persistid_cert,
                            intermediate_cert |-> dice_data.intermediate_cert]
         IN /\ flash' = to_flash(dice_state)
            /\ serial_numbers' =
                  [cert_serial_number |-> CertSerialNumber_default,
                   serial_number |-> dice_state.serial_number]
            /\ mfg_certs' = [mfg_certs EXCEPT
                                !.persistid_cert = dice_state.id_cert,
                                !.intermediate_cert = dice_state.intermediate_cert]
    /\ flash_writes' = flash_writes + 1
    /\ pc' = "deviceid"
    /\ UNCHANGED <<mem, puf, persistid_keypair, stored, uart_ran, mfg_path>>
    /\ MfgUnchanged /\ HUnchanged

\* gen_artifacts_from_flash of dice_mfg_usart.rs
usart_gen_artifacts_from_flash ==
    /\ pc = "mfg" /\ variant = "mfg_usart"
    /\ usart_take_flash(flash)
    /\ mfg_path' = "flash"
    /\ \E puf_ok \in BOOLEAN :
         LET dice_state == from_flash(flash)
             b == Puf_block_index(puf)
         IN IF Puf_is_index_blocked(puf) \/ ~puf_ok \/ ~b.ok
            THEN /\ pc' = "panic"
                 /\ UNCHANGED <<puf, persistid_keypair, mfg_certs,
                                serial_numbers>>
            ELSE /\ puf' = Puf_lock_indices_low(b.puf)
                 /\ persistid_keypair' =
                       Keypair_from(Puf_get_key(dice_state.keycode))
                 /\ mfg_certs' = [keycode |-> dice_state.keycode,
                                  persistid_cert |-> dice_state.id_cert,
                                  intermediate_cert |-> dice_state.intermediate_cert]
                 /\ serial_numbers' =
                       [cert_serial_number |-> CertSerialNumber_default,
                        serial_number |-> dice_state.serial_number]
                 /\ pc' = "deviceid"
    /\ UNCHANGED <<mem, flash, stored, uart_ran, flash_writes>>
    /\ MfgUnchanged /\ HUnchanged

\* the caller's use of the MfgResult: the DeviceId certificate is issued
\* under the PersistentId keypair with the running serial counter, and the
\* certificates go to the CERTS region
gen_deviceid_artifacts ==
    /\ pc = "deviceid" /\ variant = "mfg_usart"
    /\ LET n == CertSerialNumber_next(serial_numbers.cert_serial_number)
           deviceid_cert ==
               DeviceIdCertBuilder("deviceid", n.ret,
                                   serial_numbers.serial_number,
                                   deviceid_keypair.public, persistid_keypair)
           cert_data == CertData_new(CertBlob_from(deviceid_cert),
                                     mfg_certs.intermediate_cert)
       IN /\ mem' = store("CertData", cert_data, mem)
          /\ serial_numbers' =
                [serial_numbers EXCEPT !.cert_serial_number = n.next]
    /\ stored' = stored \cup {"CertData"}
    /\ pc' = "fwid"
    /\ UNCHANGED <<flash, puf, persistid_keypair, mfg_certs, uart_ran,
                   mfg_path, flash_writes>>
    /\ MfgUnchanged /\ HUnchanged

(***************************** stage0: after manufacturing ******************)
PipeUnchanged ==
    UNCHANGED <<variant, rom_cdi, boots, cdi_reg, flash, puf, image, cdi,
                deviceid_keypair, persistid_keypair, mfg_certs, mfg_path,
                uart_ran, flash_writes, late_read>>

\* run: gen_fwid and CdiL1::new
gen_fwid_and_cdi_l1 ==
    /\ pc = "fwid"
    /\ fwid' = gen_fwid(image)
    /\ cdi_l1' = CdiL1_new(cdi, gen_fwid(image))
    /\ pc' = "alias"
    /\ UNCHANGED <<mem, serial_numbers, stored>>
    /\ PipeUnchanged /\ HUnchanged

\* gen_alias_artifacts issuing the TQDHE certificate under the serial
\* already given to the Alias certificate
gen_alias_blob_reused_serial(l1, csn, sn, keypair, fw) ==
    LET n1 == CertSerialNumber_next(csn)
        alias_okm == AliasOkm_from_cdi(l1)
        tqdhe_okm == TrustQuorumDheOkm_from_cdi(l1)
    IN [csn |-> n1.next,
        data |-> AliasData_new(
            alias_okm,
            LeafCertBuilder("alias", n1.ret, sn,
                            Keypair_from(alias_okm).public, fw, keypair),
            tqdhe_okm,
            LeafCertBuilder("tqdhe", n1.ret, sn,
                            Keypair_from(tqdhe_okm).public, fw, keypair))]

\* gen_alias_artifacts: the AliasData built and the counter left behind
gen_alias_blob(l1, csn, sn, keypair, fw) ==
    LET n1 == CertSerialNumber_next(csn)
        n2 == CertSerialNumber_next(n1.next)
        alias_okm == AliasOkm_from_cdi(l1)
        alias_keypair == Keypair_from(alias_okm)
        alias_cert == LeafCertBuilder("alias", n1.ret, sn,
                                      alias_keypair.public, fw, keypair)
        tqdhe_okm == TrustQuorumDheOkm_from_cdi(l1)
        tqdhe_keypair == Keypair_from(tqdhe_okm)
        tqdhe_cert == LeafCertBuilder("tqdhe", n2.ret, sn,
                                      tqdhe_keypair.public, fw, keypair)
    IN [csn |-> n2.next,
        data |-> AliasData_new(alias_okm, alias_cert, tqdhe_okm, tqdhe_cert)]

gen_alias_artifacts ==
    /\ pc = "alias"
    /\ LET r == gen_alias_blob(cdi_l1, serial_numbers.cert_serial_number,
                               serial_numbers.serial_number,
                               deviceid_keypair, fwid)
       IN /\ mem' = store("AliasData", r.data, mem)
          /\ serial_numbers' = [serial_numbers EXCEPT !.cert_serial_number = r.csn]
    /\ stored' = stored \cup {"AliasData"}
    /\ pc' = "spmeasure"
    /\ UNCHANGED <<fwid, cdi_l1>>
    /\ PipeUnchanged /\ HUnchanged

\* gen_spmeasure_artifacts certifying the Alias public key in place of the
\* key of the seed it stores
gen_spmeasure_blob_alias_pub(l1, csn, sn, keypair, fw) ==
    LET n == CertSerialNumber_next(csn)
        spmeasure_okm == SpMeasureOkm_from_cdi(l1)
        spmeasure_cert ==
            LeafCertBuilder("spmeasure", n.ret, sn,
                            Keypair_from(AliasOkm_from_cdi(l1)).public, fw, keypair)
    IN [csn |-> n.next,
        data |-> SpMeasureData_new(spmeasure_okm, spmeasure_cert)]

\* gen_spmeasure_artifacts: the SpMeasureData built and the counter left
gen_spmeasure_blob(l1, csn, sn, keypair, fw) ==
    LET n == CertSerialNumber_next(csn)
        spmeasure_okm == SpMeasureOkm_from_cdi(l1)
        spmeasure_keypair == Keypair_from(spmeasure_okm)
        spmeasure_cert == LeafCertBuilder("spmeasure", n.ret, sn,
                                          spmeasure_keypair.public, fw, keypair)
    IN [csn |-> n.next,
        data |-> SpMeasureData_new(spmeasure_okm, spmeasure_cert)]

gen_spmeasure_artifacts ==
    /\ pc = "spmeasure"
    /\ LET r == gen_spmeasure_blob(cdi_l1, serial_numbers.cert_serial_number,
                                   serial_numbers.serial_number,
                                   deviceid_keypair, fwid)
       IN /\ mem' = store("SpMeasureData", r.data, mem)
          /\ serial_numbers' = [serial_numbers EXCEPT !.cert_serial_number = r.csn]
    /\ stored' = stored \cup {"SpMeasureData"}
    /\ pc' = "rng"
    /\ UNCHANGED <<fwid, cdi_l1>>
    /\ PipeUnchanged /\ HUnchanged

\* gen_rng_artifacts handing the layer-1 CDI itself to the RNG task
gen_rng_blob_leaky(l1) == RngData_new(l1)

\* gen_rng_artifacts: the RngData built
gen_rng_blob(l1) == RngData_new(RngSeed_from_cdi(l1))

\* gen_rng_artifacts, after which run returns
gen_rng_artifacts ==
    /\ pc = "rng"
    /\ mem' = store("RngData", gen_rng_blob(cdi_l1), mem)
    /\ stored' = stored \cup {"RngData"}
    /\ pc' = "returned"
    /\ UNCHANGED <<serial_numbers, fwid, cdi_l1>>
    /\ PipeUnchanged /\ HUnchanged

Stage0Next ==
    \/ run_start
    \/ gen_deviceid_keypair
    \/ dice_gen_mfg_artifacts_self
    \/ dice_gen_artifacts_from_flash
    \/ dice_gen_artifacts_from_mfg_begin
    \/ mfg_read
    \/ mfg_write
    \/ dice_gen_artifacts_from_mfg_end
    \/ mfg_self_gen_mfg_artifacts
    \/ usart_gen_artifacts_from_mfg_begin
    \/ usart_gen_artifacts_from_mfg_end
    \/ usart_gen_artifacts_from_flash
    \/ gen_deviceid_artifacts
    \/ gen_fwid_and_cdi_l1
    \/ gen_alias_artifacts
    \/ gen_spmeasure_artifacts
    \/ gen_rng_artifacts
    \/ late_cdi_read
    \/ reset

Next == Stage0Next

Spec == Init /\ [][Next]_vars

\* stage0 with a UART that takes every byte the driver writes and a host that
\* sooner or later sends the message the driver is waiting for
SpecSerial ==
    /\ Init
    /\ [][Next]_vars
    /\ WF_vars(mfg_write)
    /\ SF_vars(HostSendsRequired)

(***************************** handoff exerciser *****************************)
\* store and from_mem applied to SRAM contents and values drawn from
\* bounded sets: every region zeroed, holding a blob of its own type, or
\* holding the bytes of a blob of another type

\* a value of T built by T::new from payload number k; payload 0 is all zero
HSample(T, k) ==
    [f \in FieldNames(T) |->
        IF f = "magic" THEN EXPECTED_MAGIC(T)
        ELSE LET i == CHOOSE j \in 1..Len(Fields(T)) : Fields(T)[j][1] = f
             IN IF k = 0 THEN Zeros(Fields(T)[i][2])
                ELSE Tok(<<"sample", T, f, ToString(k)>>, Fields(T)[i][2])]

HValues(T) == {HSample(T, k) : k \in 0..(NumSamples - 1)}

TypeSeq == <<"CertData", "AliasData", "SpMeasureData", "RngData">>

TypeIndex(T) == CHOOSE i \in 1..Len(TypeSeq) : TypeSeq[i] = T

\* region contents: all zero, or every region holding the blob of the type
\* k places further on (k = 0: its own)
HContents ==
    {[T \in HandoffTypes |-> "zero"]} \cup
    {[T \in HandoffTypes |-> TypeSeq[((TypeIndex(T) - 1 + k) % Len(TypeSeq)) + 1]] :
        k \in 0..(Len(TypeSeq) - 1)}

\* the SRAM in which the region of T starts with the bytes of a blob of
\* type f[T] (regions are written in address order)
HPlace(m, T, S) ==
    IF S = "zero" THEN m
    ELSE BWrite(m, T_MEM_START(T) - MEM_START, hubpack_serialize(S, HSample(S, 1)))

HImage(f) ==
    HPlace(HPlace(HPlace(HPlace(Zeros(SRAM_SIZE),
        "CertData", f["CertData"]), "AliasData", f["AliasData"]),
        "SpMeasureData", f["SpMeasureData"]), "RngData", f["RngData"])

HInit ==
    /\ variant = "dice_self"
    /\ boots = 0
    /\ cdi_reg = [i \in 1..CDI_WORDS |-> 0]
    /\ rom_cdi = cdi_reg
    /\ image = "image1"
    /\ flash = ErasedFlash
    /\ flash_writes = 0
    /\ pc = "start"
    /\ puf = [blocked |-> FALSE, locked |-> FALSE]
    /\ cdi = <<>>
    /\ deviceid_keypair = NoKeypair
    /\ persistid_keypair = NoKeypair
    /\ serial_numbers = NoSerialNumbers
    /\ mfg_certs = NoCerts
    /\ fwid = <<>>
    /\ cdi_l1 = <<>>
    /\ stored = {}
    /\ mfg_path = "none"
    /\ uart_ran = FALSE
    /\ late_read = "none"
    /\ MIdle
    /\ \E f \in HContents : mem = HImage(f)
    /\ HIdle
    /\ LIdle

\* Handoff::store(&t) for a value of type T
HStore ==
    /\ \E T \in HandoffTypes : \E t \in HValues(T) :
         /\ mem' = store(T, t, mem)
         /\ h_op' = "store"
         /\ h_T' = T
         /\ h_t' = [h_t EXCEPT ![T] = [valid |-> TRUE, v |-> t]]
    /\ UNCHANGED <<svars, lvars, h_res>>

\* T::from_mem()
HLoad ==
    /\ \E T \in HandoffTypes :
         /\ h_res' = from_mem(T, mem)
         /\ h_op' = "load"
         /\ h_T' = T
    /\ UNCHANGED <<svars, lvars, mem, h_t>>

HNext == HStore \/ HLoad

SpecHandoff == HInit /\ [][HNext]_vars

(***************************** properties: handoff ***************************)
\* the bytes of T's reserved region in SRAM contents m
Region(T, m) == slice_from_parts(m, T_MEM_START(T), T_MEM_SIZE(T))

\* the first MAGIC_LENGTH bytes of T's region
RegionMagic(T, m) == slice_from_parts(m, T_MEM_START(T), MAGIC_LENGTH)

\* C1: a load of type T returns Some only if the first 16 bytes of T's
\* region are T's EXPECTED_MAGIC; a region that is all zero there, or that
\* starts with the magic of another blob type, loads as None.
C1_LoadOnlyWithMagic ==
    h_op = "load" =>
        /\ h_res.some => RegionMagic(h_T, mem) = EXPECTED_MAGIC(h_T)
        /\ RegionMagic(h_T, mem) = Zeros(MAGIC_LENGTH) => ~h_res.some
        /\ \A S \in HandoffTypes \ {h_T} :
              RegionMagic(h_T, mem) = EXPECTED_MAGIC(S) => ~h_res.some

\* a load from a region that holds the blob of another type has returned None
C1_Witness ==
    /\ h_op = "load"
    /\ ~h_res.some
    /\ \E S \in HandoffTypes \ {h_T} : RegionMagic(h_T, mem) = EXPECTED_MAGIC(S)

\* C2: a load of type T, after a value t built with T's magic was stored
\* into T's region, returns Some(t) with every field equal to the stored one.
C2_StoreLoadRoundTrip ==
    (h_op = "load" /\ h_t[h_T].valid) =>
        /\ h_res.some
        /\ \A f \in FieldNames(h_T) : h_res.data[f] = h_t[h_T].v[f]

\* an AliasData with a non-zero payload was stored, other blobs were stored
\* too, and the AliasData has been loaded back
C2_Witness ==
    /\ h_op = "load"
    /\ h_T = "AliasData"
    /\ h_t["AliasData"].valid
    /\ h_t["AliasData"].v = HSample("AliasData", 1)
    /\ h_t["CertData"].valid
    /\ h_res.some

\* no two reserved regions share a byte
RegionsDisjoint ==
    \A T, S \in HandoffTypes :
        T # S => \/ T_MEM_START(T) + T_MEM_SIZE(T) <= T_MEM_START(S)
                 \/ T_MEM_START(S) + T_MEM_SIZE(S) <= T_MEM_START(T)

\* a step that changes the SRAM is a store of type h_T'; it changes bytes of
\* h_T's region only
StoreStaysInRegion ==
    mem' # mem =>
        LET off == T_MEM_START(h_T') - MEM_START
        IN /\ BTake(mem', off) = BTake(mem, off)
           /\ BDrop(mem', off + T_MEM_SIZE(h_T')) = BDrop(mem, off + T_MEM_SIZE(h_T'))
           /\ \A S \in HandoffTypes \ {h_T'} : Region(S, mem') = Region(S, mem)

\* C3: the serialized maximum size of every blob type is at most its
\* reserved size, the reserved regions are pairwise disjoint, and a store
\* changes no byte outside the region of the type stored.
C3_StoreWithinRegion ==
    /\ [](\A T \in HandoffTypes : MAX_SIZE(T) <= T_MEM_SIZE(T))
    /\ []RegionsDisjoint
    /\ [][StoreStaysInRegion]_vars

\* a CertData was stored while the ALIAS region next to it held a blob
C3_Witness ==
    /\ h_op = "store"
    /\ h_T = "CertData"
    /\ RegionMagic("AliasData", mem) # Zeros(MAGIC_LENGTH)
    /\ RegionMagic("CertData", mem) = EXPECTED_MAGIC("CertData")

(***************************** properties: stage0 ****************************)
\* the layout table of the specification: offset from the base and size
SpecTable(T) ==
    CASE T = "CertData" -> [offset |-> 0, size |-> 2560]
      [] T = "AliasData" -> [offset |-> 2560, size |-> 2048]
      [] T = "SpMeasureData" -> [offset |-> 4608, size |-> 2048]
      [] T = "RngData" -> [offset |-> 6656, size |-> 256]

\* the size of the array a consumer task maps over T's region, where the
\* task declares one
ConsumerLen(T) ==
    CASE T = "CertData" -> ATTEST_CERTS_LEN
      [] T = "AliasData" -> ATTEST_ALIAS_LEN
      [] OTHER -> T_MEM_SIZE(T)

\* C4: every blob stage0 has stored lies at the address and in a region of
\* the size the specification's table gives (base 0x4010_0000; CERTS 0x0000 /
\* 0x0a00, ALIAS 0x0a00 / 0x0800, SPMEASURE 0x1200 / 0x0800, RNG 0x1a00 /
\* 0x0100), and the consumer maps a region of that same size.
C4_LayoutIsSpecTable ==
    \A T \in stored :
        /\ T_MEM_START(T) = MEM_START + SpecTable(T).offset
        /\ T_MEM_SIZE(T) = SpecTable(T).size
        /\ ConsumerLen(T) = T_MEM_SIZE(T)
        /\ slice_from_parts(mem, MEM_START + SpecTable(T).offset, MAGIC_LENGTH)
              = EXPECTED_MAGIC(T)

CdiNonZero(regs) == \E i \in 1..CDI_WORDS : regs[i] # 0

\* C5: when run has returned, a non-zero CDI means all four blobs were
\* stored and each region loads as Some; an all-zero CDI means nothing was
\* stored and no key, certificate or seed was derived.
C5_RunReturn ==
    pc = "returned" =>
        IF CdiNonZero(rom_cdi)
        THEN /\ stored = HandoffTypes
             /\ \A T \in HandoffTypes : from_mem(T, mem).some
        ELSE /\ stored = {}
             /\ mem = Zeros(SRAM_SIZE)
             /\ \A T \in HandoffTypes : ~from_mem(T, mem).some
             /\ cdi = <<>>
             /\ deviceid_keypair = NoKeypair
             /\ persistid_keypair = NoKeypair
             /\ serial_numbers = NoSerialNumbers
             /\ mfg_certs = NoCerts
             /\ fwid = <<>>
             /\ cdi_l1 = <<>>

\* run has returned with all four regions loadable from a CDI whose first
\* seven words are zero
C5_Witness ==
    /\ pc = "returned"
    /\ CdiNonZero(rom_cdi)
    /\ rom_cdi[1] = 0
    /\ \A T \in HandoffTypes : from_mem(T, mem).some

\* C6: once the first read of the CDI has returned, Some or None, every CDI
\* register holds zero and a later read in the same boot returns None.
C6_CdiClearedAfterRead ==
    pc # "start" =>
        /\ \A i \in 1..CDI_WORDS : cdi_reg[i] = 0
        /\ late_read \in {"none", "None"}

\* the boot ROM left a CDI with every word set, run read it as Some, and a
\* second read has returned None
C6_Witness ==
    /\ \A i \in 1..CDI_WORDS : rom_cdi[i] # 0
    /\ cdi # <<>>
    /\ late_read = "None"

\* the secret tokens of which some byte lies in bs
SecretsIn(bs) == {a \in BTokens(bs) : IsSecret(a)}

\* the seeds meant for the consumer of T's region
IntendedSeeds(T) ==
    IF cdi_l1 = <<>> THEN {}
    ELSE CASE T = "CertData" -> {}
           [] T = "AliasData" -> {AliasOkm_from_cdi(cdi_l1),
                                  TrustQuorumDheOkm_from_cdi(cdi_l1)}
           [] T = "SpMeasureData" -> {SpMeasureOkm_from_cdi(cdi_l1)}
           [] T = "RngData" -> {RngSeed_from_cdi(cdi_l1)}

\* the handoff SRAM outside the four regions
OutsideRegions(m) == BDrop(m, RNG_START + RNG_SIZE - MEM_START)

\* C7: the secrets in a handoff region are seeds meant for its consumer
\* (ALIAS: Alias and TQDHE seeds, SPMEASURE: SpMeasure seed, RNG: RNG seed,
\* CERTS: none); the CDI, CDI_L1 and the DeviceId / PersistentId key
\* material are nowhere in the handoff memory.
C7_OnlyIntendedSeeds ==
    /\ \A T \in HandoffTypes : SecretsIn(Region(T, mem)) \subseteq IntendedSeeds(T)
    /\ SecretsIn(OutsideRegions(mem)) = {}
    /\ \A a \in BTokens(mem) :
          /\ a # cdi
          /\ a # cdi_l1
          /\ a # deviceid_keypair.secret
          /\ a # persistid_keypair.secret

\* run has returned on a board with a PersistentId keypair and every region
\* that has a seed holds it
C7_Witness ==
    /\ pc = "returned"
    /\ persistid_keypair # NoKeypair
    /\ SecretsIn(Region("AliasData", mem)) = IntendedSeeds("AliasData")
    /\ SecretsIn(Region("SpMeasureData", mem)) = IntendedSeeds("SpMeasureData")
    /\ SecretsIn(Region("RngData", mem)) = IntendedSeeds("RngData")
    /\ IntendedSeeds("RngData") # {}

\* C8: once the manufacturing-artifact generation of a build that derives
\* the PersistentId from the PUF has returned, the key index is blocked and
\* the block register is locked.
C8_PufBlockedAfterMfg ==
    (/\ variant \in {"mfg_self", "mfg_usart"}
     /\ pc \in {"deviceid", "fwid", "alias", "spmeasure", "rng", "returned"})
        => (Puf_is_index_blocked(puf) /\ puf.locked)

\* a step that leaves the manufacturing branch of a build that keeps its
\* manufacturing state in flash
LeavesMfgBranch ==
    /\ variant \in {"dice_mfg", "mfg_usart"}
    /\ pc = "mfg"
    /\ pc' \notin {"mfg", "start"}

\* once the region is programmed no step changes it, and a boot that finds
\* it programmed takes the flash branch and runs no UART exchange
ProgrammedFlashIsKept ==
    is_programmed(flash) =>
        /\ flash' = flash
        /\ flash_writes' = flash_writes
        /\ LeavesMfgBranch => (mfg_path' = "flash" /\ ~uart_ran')

\* the region changes only by the write of a boot that found it unprogrammed
FlashWrittenWhenUnprogrammed ==
    flash' # flash =>
        /\ ~is_programmed(flash)
        /\ is_programmed(flash')
        /\ uart_ran
        /\ flash_writes' = flash_writes + 1

\* C9: over any sequence of boots the manufacturing flash region is written
\* at most once, only by a boot that found it unprogrammed; every later boot
\* finds it programmed, loads from flash, runs no UART exchange and neither
\* erases nor writes the region.
C9_FlashWrittenOnce ==
    /\ [](flash_writes <= 1)
    /\ [](is_programmed(flash) <=> flash_writes = 1)
    /\ [][ProgrammedFlashIsKept]_vars
    /\ [][FlashWrittenWhenUnprogrammed]_vars

\* a later boot of a manufactured board has run to its end from flash
C9_Witness ==
    /\ variant = "mfg_usart"
    /\ boots >= 1
    /\ flash_writes = 1
    /\ pc = "returned"
    /\ mfg_path = "flash"
    /\ ~uart_ran

\* the serial number byte of a leaf certificate loaded from a region
LoadedSerial(T, field, m) ==
    U8Val(get_serial_number("leaf", from_mem(T, m).data[field]))

AliasStepSerials ==
    (pc = "alias" /\ pc' = "spmeasure") =>
        /\ LoadedSerial("AliasData", "alias_cert", mem') = serial_numbers.cert_serial_number
        /\ LoadedSerial("AliasData", "tqdhe_cert", mem') = serial_numbers.cert_serial_number + 1
        /\ serial_numbers'.cert_serial_number = serial_numbers.cert_serial_number + 2

\* gen_spmeasure_artifacts gives the SpMeasure certificate the counter's
\* value and advances the counter by one
SpMeasureStepSerials ==
    (pc = "spmeasure" /\ pc' = "rng") =>
        /\ LoadedSerial("SpMeasureData", "spmeasure_cert", mem') = serial_numbers.cert_serial_number
        /\ serial_numbers'.cert_serial_number = serial_numbers.cert_serial_number + 1

\* the counter value manufacturing hands to gen_alias_artifacts: a counter
\* that has issued the DeviceId certificate stands at 1, a new one at 0
HandedOverCounter ==
    pc = "alias" =>
        /\ variant = "dice_self" => serial_numbers.cert_serial_number = 1
        /\ variant \in {"dice_mfg", "mfg_self"} => serial_numbers.cert_serial_number = 0
        /\ serial_numbers.cert_serial_number \in {0, 1}

\* once the three certificates are issued they carry consecutive, distinct
\* serial numbers and the counter stands right after them
SerialsConsecutive ==
    "SpMeasureData" \in stored =>
        LET a == LoadedSerial("AliasData", "alias_cert", mem)
            t == LoadedSerial("AliasData", "tqdhe_cert", mem)
            m == LoadedSerial("SpMeasureData", "spmeasure_cert", mem)
        IN /\ t = a + 1
           /\ m = a + 2
           /\ serial_numbers.cert_serial_number = a + 3
           /\ a = IF variant \in {"dice_mfg", "mfg_self"} THEN 0 ELSE 1

MaxCertOps == 3

TmplKinds == {"deviceid", "leaf"}

\* the fields each template defines a range for
TmplFields(kind) ==
    IF kind = "deviceid"
    THEN {"SERIAL_NUMBER", "ISSUER_SN", "SUBJECT_SN", "PUB", "SIG", "SIGNDATA"}
    ELSE {"SERIAL_NUMBER", "ISSUER_SN", "SUBJECT_SN", "PUB", "SIG", "SIGNDATA",
          "FWID"}

\* the length of the value each setter copies into its field
SetterLen ==
    [SERIAL_NUMBER |-> BLen(U8(0)), ISSUER_SN |-> SN_LENGTH,
     SUBJECT_SN |-> SN_LENGTH, PUB |-> PUBLICKEY_LENGTH,
     SIG |-> SIGNATURE_LENGTH, FWID |-> SEED_LENGTH]

\* the field an operation of the certificate types writes
OpField ==
    [set_serial_number |-> "SERIAL_NUMBER", set_issuer_sn |-> "ISSUER_SN",
     set_subject_sn |-> "SUBJECT_SN", set_pub |-> "PUB", set_fwid |-> "FWID",
     sign |-> "SIG"]

CertSerials == 1..NumSamples

ExKeypairs == {Keypair_from(<<"seed", ToString(i)>>) : i \in 1..NumSamples}

\* stage0 before its first step, with nothing in SRAM
S0Idle ==
    /\ variant = "dice_self"
    /\ boots = 0
    /\ cdi_reg = [i \in 1..CDI_WORDS |-> 0]
    /\ rom_cdi = cdi_reg
    /\ image = "image1"
    /\ flash = ErasedFlash
    /\ flash_writes = 0
    /\ ResetLocals
    /\ HIdle

\* DeviceIdCert::new() / AliasCert::new(): the template bytes
CNew ==
    /\ XIdle
    /\ l_mode = "cert"
    /\ l_op = "new"
    /\ l_steps = 0
    /\ c_kind \in TmplKinds
    /\ c_buf = CERT_TMPL(c_kind, c_kind)
    /\ c_arg = <<>>
    /\ c_key = NoKeypair
    /\ c_panic = FALSE
    /\ l_res = <<>>
    /\ r_len = 0
    /\ r_dst = <<>>
    /\ r_res = "none"

\* one call on the certificate under construction: the bytes after it, the
\* value it copied, whether copy_from_slice panicked
CCall(op, buf, arg, key) ==
    /\ l_mode = "cert"
    /\ l_steps < MaxCertOps
    /\ l_steps' = l_steps + 1
    /\ l_op' = op
    /\ c_buf' = buf
    /\ c_arg' = arg
    /\ c_key' = key
    /\ c_panic' = (c_panic \/
                   copy_from_slice_panics(c_buf, TmplRanges(c_kind)[OpField[op]], arg))
    /\ UNCHANGED <<svars, mem, hvars, l_mode, c_kind, l_res, r_len, r_dst, r_res,
                   xvars>>

CSetSerialNumber ==
    /\ l_mode = "cert"
    /\ \E sn \in CertSerials :
        CCall("set_serial_number", set_serial_number(c_kind, c_buf, sn), U8(sn),
              c_key)

CSetIssuerSn ==
    /\ l_mode = "cert"
    /\ \E sn \in HostSerials :
        CCall("set_issuer_sn", set_issuer_sn(c_kind, c_buf, sn), sn, c_key)

CSetSubjectSn ==
    /\ l_mode = "cert"
    /\ \E sn \in HostSerials :
        CCall("set_subject_sn", set_subject_sn(c_kind, c_buf, sn), sn, c_key)

CSetPub ==
    /\ l_mode = "cert"
    /\ \E kp \in ExKeypairs :
        CCall("set_pub", set_pub(c_kind, c_buf, kp.public),
              Tok(kp.public, PUBLICKEY_LENGTH), c_key)

\* only the leaf certificates have a FWID
CSetFwid ==
    /\ l_mode = "cert"
    /\ c_kind = "leaf"
    /\ \E img \in FwImages :
        CCall("set_fwid", set_fwid(c_kind, c_buf, gen_fwid(img)),
              Tok(gen_fwid(img), SEED_LENGTH), c_key)

CSign ==
    /\ l_mode = "cert"
    /\ \E kp \in ExKeypairs :
        CCall("sign", Cert_sign(c_kind, c_buf, kp),
              Keypair_sign(kp, get_signdata(c_kind, c_buf)), kp)

CertNext ==
    \/ CSetSerialNumber
    \/ CSetIssuerSn
    \/ CSetSubjectSn
    \/ CSetPub
    \/ CSetFwid
    \/ CSign

\* nothing called yet on the manufacturing object
MNew ==
    /\ XIdle
    /\ l_mode = "selfmfg"
    /\ l_op = "new"
    /\ l_steps = 0
    /\ c_kind = "deviceid"
    /\ c_buf = <<>>
    /\ c_arg = <<>>
    /\ c_key \in ExKeypairs
    /\ c_panic = FALSE
    /\ l_res = <<>>
    /\ r_len = 0
    /\ r_dst = <<>>
    /\ r_res = "none"

\* DeviceIdSelfMfg::run(&keypair)
SelfMfgRun ==
    /\ l_mode = "selfmfg"
    /\ l_op = "new"
    /\ l_op' = "run"
    /\ l_steps' = l_steps + 1
    /\ l_res' = DeviceIdSelfMfg_run(c_key)
    /\ c_panic' = l_res'.panicked
    /\ UNCHANGED <<svars, mem, hvars, l_mode, c_kind, c_buf, c_arg, c_key,
                   r_len, r_dst, r_res, xvars>>

(***************************** random number generators **********************)
MaxDstLen == 9
MaxReads == 3
MaxThreshold == 5
MaxRngOps == 2

\* size_of::<u32>()
STEP == 4

\* the seed of ChaCha20Rng that from_rng fills
CHACHA_SEED_LENGTH == 32

\* usize::MAX, here the largest integer of the checker: no length of the
\* model comes near either
USIZE_MAX == 2147483647

\* how many reads of the RANDOM_NUMBER register succeed before one times
\* out; NoReadError is more than any call makes
NoReadError == MaxDstLen + CHACHA_SEED_LENGTH

OkReads == (0..MaxReads) \cup {NoReadError}

\* dest[from..to].clone_from_slice(src) / copy_from_slice(src) with a source
\* of n bytes: a panic unless the slice has n bytes too; dest counts how
\* often each byte was written
fill_from_slice(dest, from, to, n) ==
    IF to > Len(dest) \/ from > to \/ to - from # n
    THEN [panic |-> TRUE, dest |-> dest]
    ELSE [panic |-> FALSE,
          dest |-> [i \in 1..Len(dest) |->
                      IF i > from /\ i <= to THEN dest[i] + 1 ELSE dest[i]]]

\* the for loop of Lpc55Rng::try_fill_bytes of the driver: k iterations
\* left, cnt bytes filled, ok reads still to succeed
RECURSIVE drv_fill_words(_, _, _, _)
drv_fill_words(dest, cnt, k, ok) ==
    IF k = 0 THEN [res |-> "ok", dest |-> dest, cnt |-> cnt, ok |-> ok]
    ELSE IF ok = 0 THEN [res |-> "err", dest |-> dest, cnt |-> cnt, ok |-> ok]
    ELSE LET c == fill_from_slice(dest, cnt, cnt + STEP, STEP)
         IN IF c.panic
            THEN [res |-> "panic", dest |-> dest, cnt |-> cnt, ok |-> ok]
            ELSE drv_fill_words(c.dest, cnt + STEP, k - 1, ok - 1)

\* Lpc55Rng::try_fill_bytes of drv/lpc55-rng on a dest of len bytes
drv_try_fill_bytes(len, ok) ==
    LET l == drv_fill_words([i \in 1..len |-> 0], 0, len \div STEP, ok)
        remain == len - l.cnt
    IN IF l.res # "ok" THEN [res |-> l.res, dest |-> l.dest]
       ELSE IF remain > STEP THEN [res |-> "panic", dest |-> l.dest]
       ELSE IF remain = 0 THEN [res |-> "ok", dest |-> l.dest]
       ELSE IF l.ok = 0 THEN [res |-> "err", dest |-> l.dest]
       ELSE LET c == fill_from_slice(l.dest, len - remain, len, STEP)
            IN [res |-> IF c.panic THEN "panic" ELSE "ok", dest |-> c.dest]

\* Lpc55Rng::try_fill_bytes of lib/lpc55-rng: the while loop
RECURSIVE lib_fill(_, _, _)
lib_fill(dst, filled, ok) ==
    IF ~(filled < Len(dst)) THEN [res |-> "ok", dest |-> dst]
    ELSE IF ok = 0 THEN [res |-> "err", dest |-> dst]
    ELSE LET len == IF STEP < Len(dst) - filled THEN STEP ELSE Len(dst) - filled
             c == fill_from_slice(dst, filled, filled + len, len)
         IN IF c.panic THEN [res |-> "panic", dest |-> dst]
            ELSE lib_fill(c.dest, filled + len, ok - 1)

lib_try_fill_bytes(len, ok) == lib_fill([i \in 1..len |-> 0], 0, ok)

\* ReseedingRng::new(reseeder, threshold) once from_rng has succeeded
ReseedingRng_new(threshold) ==
    [threshold |-> IF threshold = 0 THEN USIZE_MAX ELSE threshold,
     bytes_until_reseed |-> IF threshold = 0 THEN USIZE_MAX ELSE threshold]

\* a try_fill_bytes that reseeds only when the request exceeds the budget
reseeding_try_fill_bytes_late(rng, len, ok) ==
    IF len > rng.bytes_until_reseed \/ len >= rng.threshold
    THEN LET seed == drv_try_fill_bytes(CHACHA_SEED_LENGTH, ok)
         IN IF seed.res # "ok"
            THEN [rng |-> rng, res |-> seed.res, dest |-> [i \in 1..len |-> 0]]
            ELSE [rng |-> [rng EXCEPT !.bytes_until_reseed = rng.threshold],
                  res |-> "ok", dest |-> [i \in 1..len |-> 1]]
    ELSE [rng |-> [rng EXCEPT !.bytes_until_reseed = rng.bytes_until_reseed - len],
          res |-> "ok", dest |-> [i \in 1..len |-> 1]]

\* ReseedingRng::try_fill_bytes; from_rng fills the seed of the inner
\* generator from the hardware, and the inner ChaCha20Rng writes every byte
\* of dest
reseeding_try_fill_bytes(rng, len, ok) ==
    IF len >= rng.bytes_until_reseed \/ len >= rng.threshold
    THEN LET seed == drv_try_fill_bytes(CHACHA_SEED_LENGTH, ok)
         IN IF seed.res # "ok"
            THEN [rng |-> rng, res |-> seed.res, dest |-> [i \in 1..len |-> 0]]
            ELSE [rng |-> [rng EXCEPT !.bytes_until_reseed = rng.threshold],
                  res |-> "ok", dest |-> [i \in 1..len |-> 1]]
    ELSE [rng |-> [rng EXCEPT !.bytes_until_reseed = rng.bytes_until_reseed - len],
          res |-> "ok", dest |-> [i \in 1..len |-> 1]]

\* the generators constructed, no call made
RNew ==
    /\ XIdle
    /\ l_mode = "rng"
    /\ l_op = "new"
    /\ l_steps = 0
    /\ c_kind = "deviceid"
    /\ c_buf = <<>>
    /\ c_arg = <<>>
    /\ c_key = NoKeypair
    /\ c_panic = FALSE
    /\ \E threshold \in 0..MaxThreshold : l_res = ReseedingRng_new(threshold)
    /\ r_len = 0
    /\ r_dst = <<>>
    /\ r_res = "none"

\* one try_fill_bytes call: which generator, what it returned
RCall(op, len, rng, r) ==
    /\ l_mode = "rng"
    /\ l_steps < MaxRngOps
    /\ r_res # "panic"
    /\ l_steps' = l_steps + 1
    /\ l_op' = op
    /\ r_len' = len
    /\ r_dst' = r.dest
    /\ r_res' = r.res
    /\ l_res' = rng
    /\ c_panic' = (r.res = "panic")
    /\ UNCHANGED <<svars, mem, hvars, l_mode, c_kind, c_buf, c_arg, c_key,
                   xvars>>

DrvFill ==
    /\ l_mode = "rng"
    /\ \E len \in 0..MaxDstLen, ok \in OkReads :
        RCall("drv_try_fill_bytes", len, l_res, drv_try_fill_bytes(len, ok))

LibFill ==
    /\ l_mode = "rng"
    /\ \E len \in 0..MaxDstLen, ok \in OkReads :
        RCall("lib_try_fill_bytes", len, l_res, lib_try_fill_bytes(len, ok))

ReseedingFill ==
    /\ l_mode = "rng"
    /\ \E len \in 0..MaxDstLen, ok \in OkReads :
        \E r \in {reseeding_try_fill_bytes(l_res, len, ok)} :
            RCall("reseeding_try_fill_bytes", len, r.rng, r)

RngNext == DrvFill \/ LibFill \/ ReseedingFill

LInit ==
    /\ S0Idle
    /\ (CNew \/ MNew \/ RNew)

LNext ==
    \/ CertNext
    \/ SelfMfgRun
    \/ RngNext

SpecLib == LInit /\ [][LNext]_vars

(***************************** hardware RNG ***********************************)
\* Lpc55Rng::init and Lpc55Rng::read of lib/lpc55-rng ("lib") and of
\* drv/lpc55-rng ("drv"), one poll of a register per step.  What a register
\* holds at a poll is the hardware's choice.
HwImpls == {"lib", "drv"}

\* RETRY_MAX of drv/lpc55-rng
RETRY_MAX == 5

\* INIT_RETRY_MAX and CHECK_RETRY_MAX of lib/lpc55-rng
INIT_RETRY_MAX == 5
CHECK_RETRY_MAX == 5

RetryMax(impl, op) ==
    IF impl = "drv" THEN RETRY_MAX
    ELSE IF op = "init" THEN INIT_RETRY_MAX ELSE CHECK_RETRY_MAX

\* what one poll can observe: min_chi_squared >= max_chi_squared,
\* max_chi_squared > 4, refresh_cnt = 31, PDEN_RNG powered on
HwRegs ==
    [min_ge_max : BOOLEAN, chi_gt4 : BOOLEAN, refresh_31 : BOOLEAN,
     powered : BOOLEAN]

\* the discriminants of RngError (repr(u32))
RngErrorCode ==
    [BadArg |-> 0, PoweredOff |-> 1, TimeoutChi2Min |-> 2,
     TimeoutChi2Gt4 |-> 3, TimeoutRefreshCnt |-> 4]

\* From<RngError> for rand_core::Error: CUSTOM_START plus the discriminant
Error_from_RngError(e) == [custom |-> TRUE, code |-> RngErrorCode[e]]

\* a conversion that knows no discriminant above TimeoutChi2Gt4
RngError_from_u32_short(u) ==
    IF \E e \in DOMAIN RngErrorCode : RngErrorCode[e] = u /\ u < 4
    THEN CHOOSE e \in DOMAIN RngErrorCode : RngErrorCode[e] = u
    ELSE "panic"

\* From<u32> for RngError: FromPrimitive, a panic for any other number
RngError_from_u32(u) ==
    IF \E e \in DOMAIN RngErrorCode : RngErrorCode[e] = u
    THEN CHOOSE e \in DOMAIN RngErrorCode : RngErrorCode[e] = u
    ELSE "panic"

\* From<rand_core::Error> for RngError: a panic below CUSTOM_START
RngError_from_Error(e) ==
    IF ~e.custom THEN "panic" ELSE RngError_from_u32(e.code)

\* From<Lpc55RngError> for RngError of lib/lpc55-rng
RngError_from_Lpc55RngError(e) ==
    CASE e \in {"MaxChi2Gt4", "RefreshCntNot31"} -> "NoEntropy"
      [] e = "PoweredOff" -> "PoweredOff"
      [] OTHER -> "UnknownRngError"

\* the error as the caller of the generator gets it: read is called by
\* try_fill_bytes, which converts (lib) or passes the error through
\* rand_core::Error to the server's RngError::from (drv); init hands its
\* error to main
ReachesCaller(impl, op, res) ==
    IF res = "Ok" \/ op = "init" THEN res
    ELSE IF impl = "lib" THEN RngError_from_Lpc55RngError(res)
    ELSE RngError_from_Error(Error_from_RngError(res))

\* the error of read when a wait is exhausted
ReadTimeout(impl, wait) ==
    IF impl = "lib"
    THEN (IF wait = "refresh_cnt" THEN "RefreshCntNot31" ELSE "MaxChi2Gt4")
    ELSE (IF wait = "refresh_cnt" THEN "TimeoutRefreshCnt" ELSE "TimeoutChi2Gt4")

\* the largest COUNTER_CFG.SHIFT4X
SHIFT4X_MAX == 7

\* the generator constructed, no call made; activate and shift4x are
\* ONLINE_TEST_CFG.ACTIVATE and COUNTER_CFG.SHIFT4X, shift4x_reset the value
\* the peripheral's reset left in SHIFT4X, last_min and last_max what init
\* last saw of the chi-squared values
Lpc55Rng_new(impl) ==
    [impl |-> impl, op |-> "none", pc |-> "idle", retry |-> 0,
     retry_chi_min |-> 0, sleeps |-> 0, trace |-> <<>>, number |-> "none",
     res |-> "none", value |-> "none", cond |-> "none", caller |-> "none",
     activate |-> FALSE, shift4x |-> 0, shift4x_reset |-> 0,
     last_min |-> "none", last_max |-> "none"]

\* a call begins: the locals of init (after power on, clock and reset,
\* which leaves shift4x in SHIFT4X, and with the online test enabled at the
\* top of the loop) or of read, which leaves the configuration alone
Lpc55Rng_call(h, op, shift4x) ==
    IF op = "init"
    THEN [Lpc55Rng_new(h.impl) EXCEPT
             !.op = op, !.pc = "init_chi_min", !.activate = TRUE,
             !.shift4x = shift4x, !.shift4x_reset = shift4x]
    ELSE [Lpc55Rng_new(h.impl) EXCEPT
             !.op = op, !.pc = "read_powered", !.activate = h.activate,
             !.shift4x = h.shift4x, !.shift4x_reset = h.shift4x_reset]

\* shift4x_increment
shift4x_increment(shift4x) ==
    IF shift4x < SHIFT4X_MAX THEN shift4x + 1 ELSE shift4x

Observed(h, what) == [h EXCEPT !.trace = Append(@, what)]

\* hl::sleep_for in a wait of the call
Slept(h) == [h EXCEPT !.sleeps = @ + 1]

\* the call returns res; cond names the return statement taken
Returned(h, res, cond) ==
    [h EXCEPT !.pc = "idle", !.res = res, !.cond = cond,
              !.value = IF res = "Ok" THEN h.number ELSE "none",
              !.caller = ReachesCaller(h.impl, h.op, res)]

\* an init that polls without counting its retries
Lpc55Rng_init_step_uncounted(h, r) ==
    CASE h.pc = "init_chi_min" ->
           IF r.min_ge_max THEN Slept(h) ELSE [h EXCEPT !.pc = "init_chi_gt4"]
      [] OTHER ->
           IF r.chi_gt4
           THEN [Slept(h) EXCEPT !.pc = "init_chi_min"]
           ELSE Returned(h, "Ok", "initialized")

\* an init that increments SHIFT4X whatever it holds
Lpc55Rng_init_step_unsaturated(h, r) ==
    CASE h.pc = "init_chi_min" ->
           IF r.min_ge_max
           THEN IF h.retry_chi_min < RetryMax(h.impl, "init")
                THEN [Slept(h) EXCEPT !.retry_chi_min = @ + 1,
                                      !.last_min = "min_ge_max"]
                ELSE Returned([h EXCEPT !.last_min = "min_ge_max"],
                              "TimeoutChi2Min", "init_chi_min")
           ELSE [h EXCEPT !.pc = "init_chi_gt4", !.last_min = "min_lt_max"]
      [] h.pc = "init_chi_gt4" ->
           IF r.chi_gt4
           THEN IF h.retry < RetryMax(h.impl, "init")
                THEN [h EXCEPT !.activate = FALSE,
                               !.shift4x = @ + 1,
                               !.last_max = "chi_gt4",
                               !.pc = "init_retry_sleep"]
                ELSE Returned([h EXCEPT !.activate = FALSE,
                                        !.shift4x = @ + 1,
                                        !.last_max = "chi_gt4"],
                              "TimeoutChi2Gt4", "init_chi_gt4")
           ELSE Returned([h EXCEPT !.last_max = "chi_le4"],
                         "Ok", "initialized")
      [] OTHER ->
           [h EXCEPT !.retry = @ + 1, !.retry_chi_min = 0, !.sleeps = 0,
                     !.activate = TRUE, !.pc = "init_chi_min"]

\* Lpc55Rng::init, one poll: the wait for MIN_CHI_SQUARED below
\* MAX_CHI_SQUARED, then the test of MAX_CHI_SQUARED > 4, which disables
\* the online test and increments SHIFT4X; after the sleep of a retry the
\* loop enables the test again
Lpc55Rng_init_step(h, r) ==
    CASE h.pc = "init_chi_min" ->
           IF r.min_ge_max
           THEN IF h.retry_chi_min < RetryMax(h.impl, "init")
                THEN [Slept(h) EXCEPT !.retry_chi_min = @ + 1,
                                      !.last_min = "min_ge_max"]
                ELSE Returned([h EXCEPT !.last_min = "min_ge_max"],
                              "TimeoutChi2Min", "init_chi_min")
           ELSE [h EXCEPT !.pc = "init_chi_gt4", !.last_min = "min_lt_max"]
      [] h.pc = "init_chi_gt4" ->
           IF r.chi_gt4
           THEN IF h.retry < RetryMax(h.impl, "init")
                THEN [h EXCEPT !.activate = FALSE,
                               !.shift4x = shift4x_increment(@),
                               !.last_max = "chi_gt4",
                               !.pc = "init_retry_sleep"]
                ELSE Returned([h EXCEPT !.activate = FALSE,
                                        !.shift4x = shift4x_increment(@),
                                        !.last_max = "chi_gt4"],
                              "TimeoutChi2Gt4", "init_chi_gt4")
           ELSE Returned([h EXCEPT !.last_max = "chi_le4"],
                         "Ok", "initialized")
      [] OTHER ->
           [h EXCEPT !.retry = @ + 1, !.retry_chi_min = 0, !.sleeps = 0,
                     !.activate = TRUE, !.pc = "init_chi_min"]

\* a read that takes RANDOM_NUMBER whatever refresh_cnt holds
Lpc55Rng_read_step_unchecked(h, r) ==
    CASE h.pc = "read_powered" ->
           IF ~r.powered
           THEN Returned(Observed(h, "powered_off"), "PoweredOff", "powered_off")
           ELSE [Observed(h, "powered_on") EXCEPT !.pc = "read_refresh"]
      [] h.pc = "read_refresh" ->
           [Observed(Observed(h, IF r.refresh_31 THEN "refresh_31"
                                 ELSE "refresh_not_31"), "RANDOM_NUMBER")
               EXCEPT !.number = "random_number", !.retry = 0, !.sleeps = 0,
                      !.pc = "read_chi"]
      [] OTHER ->
           IF r.chi_gt4
           THEN IF h.retry < RetryMax(h.impl, "read")
                THEN [Slept(Observed(h, "chi_gt4")) EXCEPT !.retry = @ + 1]
                ELSE Returned(Observed(h, "chi_gt4"),
                              ReadTimeout(h.impl, "max_chi_squared"),
                              "read_chi")
           ELSE Returned(Observed(h, "chi_le4"), "Ok", "read")

\* Lpc55Rng::read, one poll: the power check, the wait for REFRESH_CNT = 31
\* that ends with the read of RANDOM_NUMBER, the wait for
\* MAX_CHI_SQUARED <= 4
Lpc55Rng_read_step(h, r) ==
    CASE h.pc = "read_powered" ->
           IF ~r.powered
           THEN Returned(Observed(h, "powered_off"), "PoweredOff", "powered_off")
           ELSE [Observed(h, "powered_on") EXCEPT !.pc = "read_refresh"]
      [] h.pc = "read_refresh" ->
           IF ~r.refresh_31
           THEN IF h.retry < RetryMax(h.impl, "read")
                THEN [Slept(Observed(h, "refresh_not_31")) EXCEPT !.retry = @ + 1]
                ELSE Returned(Observed(h, "refresh_not_31"),
                              ReadTimeout(h.impl, "refresh_cnt"),
                              "read_refresh")
           ELSE [Observed(Observed(h, "refresh_31"), "RANDOM_NUMBER")
                    EXCEPT !.number = "random_number", !.retry = 0,
                           !.sleeps = 0, !.pc = "read_chi"]
      [] OTHER ->
           IF r.chi_gt4
           THEN IF h.retry < RetryMax(h.impl, "read")
                THEN [Slept(Observed(h, "chi_gt4")) EXCEPT !.retry = @ + 1]
                ELSE Returned(Observed(h, "chi_gt4"),
                              ReadTimeout(h.impl, "max_chi_squared"),
                              "read_chi")
           ELSE Returned(Observed(h, "chi_le4"), "Ok", "read")

HwUnchanged == UNCHANGED <<svars, mem, hvars, l_mode, l_op, l_steps, c_kind,
                           c_buf, c_arg, c_key, c_panic, l_res, r_len, r_dst,
                           r_res, srv, att, yvars>>

\* the caller starts init or read
HwCall ==
    /\ hw # <<>>
    /\ hw.pc = "idle"
    /\ \E op \in {"init", "read"}, shift4x \in 0..SHIFT4X_MAX :
          /\ op = "read" => shift4x = 0
          /\ hw' = Lpc55Rng_call(hw, op, shift4x)
    /\ HwUnchanged

\* init polls once
HwInitStep ==
    /\ hw # <<>>
    /\ hw.op = "init" /\ hw.pc # "idle"
    /\ \E r \in HwRegs : hw' = Lpc55Rng_init_step(hw, r)
    /\ HwUnchanged

\* read polls once
HwReadStep ==
    /\ hw # <<>>
    /\ hw.op = "read" /\ hw.pc # "idle"
    /\ \E r \in HwRegs : hw' = Lpc55Rng_read_step(hw, r)
    /\ HwUnchanged

HwStep == HwInitStep \/ HwReadStep

HwInit ==
    /\ S0Idle
    /\ LibIdle
    /\ srv = <<>>
    /\ att = <<>>
    /\ YIdle
    /\ \E impl \in HwImpls : hw = Lpc55Rng_new(impl)

HwNext == HwCall \/ HwStep

SpecHwRng == HwInit /\ [][HwNext]_vars

\* the task is scheduled while a call is in progress: sleep_for returns
SpecHwRngFair == SpecHwRng /\ WF_vars(HwStep)

(***************************** RNG server *************************************)
\* The reseeding generator and the fill handler of drv/lpc55-rng and the
\* fill handler of drv/stm32h7-rng, one call per step.  A generated byte is
\* named by the seed draw its generator came from and its place in that
\* generator's stream.
MaxLease == 6
MaxFills == 2

\* the threshold and the request of the reseed-boundary scenario
ScenarioThreshold == 64
ScenarioRequest == 200

Thresholds == (0..MaxThreshold) \cup {ScenarioThreshold}

\* the lengths asked of a generator: the scenario's request of the
\* scenario's generator, every short length of the others
LeaseLens(threshold) ==
    IF threshold = ScenarioThreshold THEN {ScenarioRequest} ELSE 0..MaxLease

\* more successes than any one call asks for
NoFail == ScenarioRequest + 1

SrvImpls == {"lpc55", "stm32h7"}

\* the errors Lpc55Rng::read of the driver can return
HwReadErrors == {"PoweredOff", "TimeoutRefreshCnt", "TimeoutChi2Gt4"}

NoFault == [hw_ok |-> NoFail, hw_err |-> "none", wr_ok |-> NoFail]

\* what can go wrong during one fill: the hardware fails at the first seed
\* draw or at the second, the client goes away before the first lease write
\* or before the second
Faults ==
    {NoFault,
     [hw_ok |-> 0, hw_err |-> "PoweredOff", wr_ok |-> NoFail],
     [hw_ok |-> 0, hw_err |-> "TimeoutChi2Gt4", wr_ok |-> NoFail],
     [hw_ok |-> 1, hw_err |-> "TimeoutRefreshCnt", wr_ok |-> NoFail],
     [hw_ok |-> NoFail, hw_err |-> "none", wr_ok |-> 0],
     [hw_ok |-> NoFail, hw_err |-> "none", wr_ok |-> 1]}

\* ChaCha20Rng::from_rng(&mut reseeder), draw number k: the seed is
\* CHACHA_SEED_LENGTH bytes read from the hardware, and nothing else
ChaCha20Rng_from_rng(k) ==
    [seed |-> <<[src |-> "hw", draw |-> k, n |-> CHACHA_SEED_LENGTH]>>,
     draw |-> k, pos |-> 0]

\* the next len bytes of the stream of the inner generator
StreamBytes(inner, len) ==
    [i \in 1..len |-> [draw |-> inner.draw, pos |-> inner.pos + i - 1]]

\* ReseedingRng::new with its inner generator; draws counts the seeds drawn
\* after the first, out the bytes handed out
ReseedingRng_with_inner(threshold) ==
    [rng |-> ReseedingRng_new(threshold), inner |-> ChaCha20Rng_from_rng(0),
     draws |-> 0, out |-> 0]

\* a try_fill_bytes that renews the budget before it has the new seed
ReseedingRng_try_fill_bytes_reset_first(g, len, hw_err) ==
    LET r == reseeding_try_fill_bytes(
                 g.rng, len, IF hw_err = "none" THEN NoReadError ELSE 0)
        reseed == len >= g.rng.bytes_until_reseed \/ len >= g.rng.threshold
        inner == IF reseed THEN ChaCha20Rng_from_rng(g.draws + 1) ELSE g.inner
    IN IF r.res # "ok"
       THEN [g |-> [g EXCEPT !.rng.bytes_until_reseed = g.rng.threshold],
             res |-> r.res, err |-> Error_from_RngError(hw_err),
             bytes |-> <<>>]
       ELSE [g |-> [rng |-> r.rng,
                    inner |-> [inner EXCEPT !.pos = @ + len],
                    draws |-> IF reseed THEN g.draws + 1 ELSE g.draws,
                    out |-> g.out + len],
             res |-> "ok", err |-> "none", bytes |-> StreamBytes(inner, len)]

\* ReseedingRng::try_fill_bytes on a dest of len bytes, with the inner
\* generator: reseeded when the budget says so, then the inner generator
\* fills dest; hw_err is the error of the hardware read, "none" without
ReseedingRng_try_fill_bytes(g, len, hw_err) ==
    LET r == reseeding_try_fill_bytes(
                 g.rng, len, IF hw_err = "none" THEN NoReadError ELSE 0)
        reseed == len >= g.rng.bytes_until_reseed \/ len >= g.rng.threshold
        inner == IF reseed THEN ChaCha20Rng_from_rng(g.draws + 1) ELSE g.inner
    IN IF r.res # "ok"
       THEN [g |-> g, res |-> r.res, err |-> Error_from_RngError(hw_err),
             bytes |-> <<>>]
       ELSE [g |-> [rng |-> r.rng,
                    inner |-> [inner EXCEPT !.pos = @ + len],
                    draws |-> IF reseed THEN g.draws + 1 ELSE g.draws,
                    out |-> g.out + len],
             res |-> "ok", err |-> "none", bytes |-> StreamBytes(inner, len)]

\* Stm32h7Rng::read: the next word of the hardware, as bytes
Stm32h7Rng_read(g, hw_err) ==
    IF hw_err # "none"
    THEN [g |-> g, res |-> "err", err |-> Error_from_RngError(hw_err),
          bytes |-> <<>>]
    ELSE [g |-> [g EXCEPT !.inner.pos = @ + STEP, !.out = @ + STEP],
          res |-> "ok", err |-> "none", bytes |-> StreamBytes(g.inner, STEP)]

\* the client's memory: the leased bytes and STEP bytes behind them
ClientMemory(n) == [i \in 1..(n + STEP) |-> [writes |-> 0, byte |-> <<>>]]

\* a write_range that copies all of src whatever the lease holds
Leased_write_range_unbounded(client, len, lo, hi, src, alive) ==
    [ok |-> alive,
     client |-> [i \in 1..Len(client) |->
                   IF alive /\ i > lo /\ i <= lo + Len(src)
                   THEN [writes |-> client[i].writes + 1, byte |-> src[i - lo]]
                   ELSE client[i]]]

\* Leased::write_range(lo..hi, src) on a lease of len bytes: the kernel
\* copies as much of src as the lease has room for behind lo, nothing when
\* the client is gone; Ok when it copied hi - lo bytes
Leased_write_range(client, len, lo, hi, src, alive) ==
    LET n == IF Len(src) < len - lo THEN Len(src) ELSE len - lo
    IN [ok |-> alive /\ n = hi - lo,
        client |-> [i \in 1..Len(client) |->
                      IF alive /\ i > lo /\ i <= lo + n
                      THEN [writes |-> client[i].writes + 1, byte |-> src[i - lo]]
                      ELSE client[i]]]

\* the bytes delivered so far as runs [draw, from, n] of a stream, the run
\* of bytes (all of one stream, in its order) appended
Delivered(d, bytes) ==
    IF bytes = <<>> THEN d
    ELSE IF /\ d # <<>>
            /\ d[Len(d)].draw = bytes[1].draw
            /\ d[Len(d)].from + d[Len(d)].n = bytes[1].pos
    THEN [d EXCEPT ![Len(d)].n = @ + Len(bytes)]
    ELSE Append(d, [draw |-> bytes[1].draw, from |-> bytes[1].pos,
                    n |-> Len(bytes)])

\* the runs of one call appended to the runs delivered before it
DeliveredJoin(d, e) ==
    IF e = <<>> THEN d
    ELSE Delivered(d, StreamBytes([draw |-> e[1].draw, pos |-> e[1].from],
                                  e[1].n)) \o Tail(e)

\* a fill in progress: the generator, the client's memory, cnt, how many
\* seed draws and lease writes still succeed, the lengths written
FillStart(impl, g, n, hw_ok, hw_err, wr_ok) ==
    [impl |-> impl, g |-> g, len |-> n, client |-> ClientMemory(n), cnt |-> 0,
     hw_ok |-> hw_ok, hw_err |-> hw_err, wr_ok |-> wr_ok, chunks |-> {},
     delivered |-> <<>>, res |-> <<"running">>]

\* one draw of STEP bytes and its write to lo..hi of the lease: buf of the
\* lpc55 handler is written whole, the stm32h7 handler writes the first
\* hi - lo bytes of the word
FillChunk(f, lo, hi) ==
    LET t == IF f.impl = "lpc55"
             THEN ReseedingRng_try_fill_bytes(
                      f.g, STEP, IF f.hw_ok = 0 THEN f.hw_err ELSE "none")
             ELSE Stm32h7Rng_read(
                      f.g, IF f.hw_ok = 0 THEN f.hw_err ELSE "none")
        src == IF f.impl = "lpc55" THEN t.bytes
               ELSE SubSeq(t.bytes, 1, hi - lo)
        w == Leased_write_range(f.client, f.len, lo, hi, src, f.wr_ok > 0)
        drew == f.impl = "stm32h7" \/ t.g.draws > f.g.draws
    IN IF t.res = "panic" THEN [f EXCEPT !.res = <<"panic">>]
       ELSE IF t.res # "ok"
       THEN [f EXCEPT !.res = <<"Runtime", RngError_from_Error(t.err)>>]
       ELSE IF ~w.ok
       THEN [f EXCEPT !.g = t.g, !.client = w.client,
                      !.res = <<"Fail", "WentAway">>]
       ELSE [f EXCEPT !.g = t.g, !.client = w.client,
                      !.hw_ok = IF drew THEN @ - 1 ELSE @,
                      !.wr_ok = @ - 1,
                      !.chunks = @ \cup {hi - lo},
                      !.delivered = Delivered(@, SubSeq(src, 1, hi - lo))]

\* the element of a one-element set
The(S) == CHOOSE x \in S : TRUE

\* the for loop of fill: k iterations left (evaluated eight at a time)
RECURSIVE fill_words(_, _)
fill_words(f, k) ==
    IF k = 0 \/ f.res # <<"running">> THEN f
    ELSE IF k > 8
    THEN The({fill_words(f8, k - 8) : f8 \in {fill_words(f, 8)}})
    ELSE The({fill_words([f1 EXCEPT !.cnt = @ + STEP], k - 1) :
                f1 \in {FillChunk(f, f.cnt, f.cnt + STEP)}})

\* the rest of fill after the for loop has left f1
fill_remaining(f1, n) ==
    LET remain == n - f1.cnt
    IN IF f1.res # <<"running">> THEN f1
       ELSE IF remain > STEP THEN [f1 EXCEPT !.res = <<"panic">>]
       ELSE IF remain = 0 THEN [f1 EXCEPT !.res = <<"Ok", f1.cnt>>]
       ELSE The({IF f2.res # <<"running">> THEN f2
                 ELSE [f2 EXCEPT !.cnt = @ + remain,
                                 !.res = <<"Ok", f2.cnt + remain>>] :
                   f2 \in {FillChunk(f1, n - remain, n)}})

\* Lpc55RngServer::fill and Stm32h7RngServer::fill on a lease of n bytes
RngServer_fill(impl, g, n, hw_ok, hw_err, wr_ok) ==
    The({fill_remaining(f1, n) :
           f1 \in {fill_words(FillStart(impl, g, n, hw_ok, hw_err, wr_ok),
                              n \div STEP)}})

\* the task after main has constructed its server; direct marks a
\* ReseedingRng that is called without the server
RngServer_new(impl, direct, threshold) ==
    [impl |-> impl, direct |-> direct, g |-> ReseedingRng_with_inner(threshold),
     op |-> "new", calls |-> 0, len |-> 0, client |-> <<>>, chunks |-> {},
     delivered |-> <<>>, fault |-> NoFault, prev |-> <<"none">>,
     res |-> <<"none">>]

SrvUnchanged == UNCHANGED <<svars, mem, hvars, l_mode, l_op, l_steps, c_kind,
                            c_buf, c_arg, c_key, c_panic, l_res, r_len, r_dst,
                            r_res, hw, att, yvars>>

\* the dispatch loop hands one fill request to the server
SrvFill ==
    /\ srv # <<>>
    /\ ~srv.direct
    /\ srv.calls < MaxFills
    /\ srv.res # <<"panic">>
    /\ \E n \in LeaseLens(srv.g.rng.threshold), x \in Faults :
        \E f \in {RngServer_fill(srv.impl, srv.g, n, x.hw_ok, x.hw_err,
                                 x.wr_ok)} :
            srv' = [srv EXCEPT
                      !.g = f.g, !.op = "fill", !.calls = @ + 1, !.len = n,
                      !.client = f.client, !.chunks = f.chunks,
                      !.delivered = DeliveredJoin(@, f.delivered),
                      !.fault = x, !.prev = srv.res, !.res = f.res]
    /\ SrvUnchanged

\* try_fill_bytes called on the reseeding generator itself
SrvTryFillBytes ==
    /\ srv # <<>>
    /\ srv.direct
    /\ srv.calls < MaxFills
    /\ \E len \in LeaseLens(srv.g.rng.threshold),
          hw_err \in HwReadErrors \cup {"none"} :
        \E t \in {ReseedingRng_try_fill_bytes(srv.g, len, hw_err)} :
            srv' = [srv EXCEPT
                      !.g = t.g, !.op = "try_fill_bytes", !.calls = @ + 1,
                      !.len = len,
                      !.delivered = Delivered(@, t.bytes),
                      !.fault = [NoFault EXCEPT !.hw_err = hw_err],
                      !.prev = srv.res,
                      !.res = IF t.res = "ok" THEN <<"Ok", len>>
                              ELSE <<"Err", RngError_from_Error(t.err)>>]
    /\ SrvUnchanged

SrvInit ==
    /\ S0Idle
    /\ LibIdle
    /\ hw = <<>>
    /\ att = <<>>
    /\ YIdle
    /\ \E impl \in SrvImpls, direct \in BOOLEAN, threshold \in Thresholds :
          /\ direct => impl = "lpc55"
          /\ impl = "stm32h7" => threshold = 0
          /\ srv = RngServer_new(impl, direct, threshold)

SrvNext == SrvFill \/ SrvTryFillBytes

SpecRngServer == SrvInit /\ [][SrvNext]_vars

(******************************* attest server ******************************)
MaxCertLen == 2
MaxIndex == 5
MaxOffset == 3
MaxDest == 2

\* Option<T> without a type: no element or one
Absent == <<>>
Present(x) == <<x>>

\* the n bytes of a certificate
CertBytes(name, n) == [i \in 1..n |-> <<name, i>>]

\* AttestServer::default: each handoff region loads or does not; the
\* persistent-id and the intermediate certificate are sized blobs, the
\* intermediate certificate is there for a manufactured identity only
\* (inter = -1: none)
AttestServer_default(alias_ok, certs_ok, persist, inter) ==
    [alias_data |->
        IF alias_ok
        THEN Present([alias_cert |-> CertBytes("alias_cert", MaxCertLen)])
        ELSE Absent,
     cert_data |->
        IF certs_ok
        THEN Present([deviceid_cert |-> CertBytes("deviceid_cert", MaxCertLen),
                   persistid_cert |-> CertBytes("persistid_cert", persist),
                   intermediate_cert |->
                       IF inter < 0 THEN Absent
                       ELSE Present(CertBytes("intermediate_cert", inter))])
        ELSE Absent,
     op |-> "none", index |-> 0, offset |-> 0, len |-> 0,
     client |-> <<>>, res |-> <<"none">>]

\* the certificate whose subject key signed the certificate called name, as
\* stage0 builds the chain: Alias by DeviceId, DeviceId by PersistentId,
\* PersistentId by the intermediate CA of manufacturing, or by itself where
\* the identity is self-signed
IssuerCert(name, has_intermediate) ==
    CASE name = "alias_cert" -> "deviceid_cert"
      [] name = "deviceid_cert" -> "persistid_cert"
      [] name = "persistid_cert" ->
            IF has_intermediate THEN "intermediate_cert" ELSE "persistid_cert"
      [] OTHER -> "root"

get_alias_data(a) ==
    IF a.alias_data # Absent THEN <<"Ok", a.alias_data[1]>>
    ELSE <<"Err", "NoCerts">>

get_cert_data(a) ==
    IF a.cert_data # Absent THEN <<"Ok", a.cert_data[1]>>
    ELSE <<"Err", "NoCerts">>

\* the chain index with the DeviceId and PersistentId certificates exchanged
get_cert_bytes_from_index_swapped(a, index) ==
    IF get_alias_data(a)[1] = "Err" THEN get_alias_data(a)
    ELSE IF get_cert_data(a)[1] = "Err" THEN get_cert_data(a)
    ELSE LET alias_data == get_alias_data(a)[2]
             cert_data == get_cert_data(a)[2]
         IN CASE index = 0 -> <<"Ok", alias_data.alias_cert>>
              [] index = 1 -> <<"Ok", cert_data.persistid_cert>>
              [] index = 2 -> <<"Ok", cert_data.deviceid_cert>>
              [] index = 3 ->
                    IF cert_data.intermediate_cert # Absent
                    THEN <<"Ok", cert_data.intermediate_cert[1]>>
                    ELSE <<"Err", "InvalidCertIndex">>
              [] OTHER -> <<"Err", "InvalidCertIndex">>

get_cert_bytes_from_index(a, index) ==
    IF get_alias_data(a)[1] = "Err" THEN get_alias_data(a)
    ELSE IF get_cert_data(a)[1] = "Err" THEN get_cert_data(a)
    ELSE LET alias_data == get_alias_data(a)[2]
             cert_data == get_cert_data(a)[2]
         IN CASE index = 0 -> <<"Ok", alias_data.alias_cert>>
              [] index = 1 -> <<"Ok", cert_data.deviceid_cert>>
              [] index = 2 -> <<"Ok", cert_data.persistid_cert>>
              [] index = 3 ->
                    IF cert_data.intermediate_cert # Absent
                    THEN <<"Ok", cert_data.intermediate_cert[1]>>
                    ELSE <<"Err", "InvalidCertIndex">>
              [] OTHER -> <<"Err", "InvalidCertIndex">>

\* a chain length that does not look at the certificate data
AttestServer_cert_chain_len_unloaded(a) ==
    IF a.cert_data = Absent \/ a.cert_data[1].intermediate_cert = Absent
    THEN <<"Ok", 3>>
    ELSE <<"Ok", 4>>

AttestServer_cert_chain_len(a) ==
    IF get_cert_data(a)[1] = "Err" THEN get_cert_data(a)
    ELSE IF get_cert_data(a)[2].intermediate_cert = Absent
         THEN <<"Ok", 3>>
         ELSE <<"Ok", 4>>

\* the length always fits a u32: CertTooBig is never returned
AttestServer_cert_len(a, index) ==
    IF get_cert_bytes_from_index(a, index)[1] = "Err"
    THEN get_cert_bytes_from_index(a, index)
    ELSE <<"Ok", Len(get_cert_bytes_from_index(a, index)[2])>>

\* cert(index, offset, dest) with a lease of dlen bytes. An offset behind
\* the certificate makes cert.len() - offset overflow: a panic where
\* overflow is checked, and where it wraps the slice cert[offset..] panics
AttestServer_cert(a, index, offset, dlen, alive) ==
    LET got == get_cert_bytes_from_index(a, index)
        dest == ClientMemory(dlen)
    IN IF got[1] = "Err" THEN [res |-> got, client |-> dest]
       ELSE IF got[2] = <<>>
            THEN [res |-> <<"Err", "InvalidCertIndex">>, client |-> dest]
       ELSE IF offset > Len(got[2])
            THEN [res |-> <<"panic">>, client |-> dest]
       ELSE IF dlen > Len(got[2]) - offset
            THEN [res |-> <<"Err", "OutOfRange">>, client |-> dest]
       ELSE LET w == Leased_write_range(dest, dlen, 0, dlen,
                                        SubSeq(got[2], offset + 1,
                                               offset + dlen), alive)
            IN [res |-> IF w.ok THEN <<"Ok">> ELSE <<"Fail", "WentAway">>,
                client |-> w.client]

AttUnchanged == UNCHANGED <<svars, mem, hvars, l_mode, l_op, l_steps, c_kind,
                            c_buf, c_arg, c_key, c_panic, l_res, r_len, r_dst,
                            r_res, hw, srv, yvars>>

\* the dispatch loop hands one request to the server; a server that
\* panicked is started again and loads the same handoff regions
AttCertChainLen ==
    /\ att # <<>>
    /\ att' = [att EXCEPT !.op = "cert_chain_len", !.index = 0, !.offset = 0,
                          !.len = 0, !.client = <<>>,
                          !.res = AttestServer_cert_chain_len(att)]
    /\ AttUnchanged

AttCertLen ==
    /\ att # <<>>
    /\ \E index \in 0..MaxIndex :
          att' = [att EXCEPT !.op = "cert_len", !.index = index,
                             !.offset = 0, !.len = 0, !.client = <<>>,
                             !.res = AttestServer_cert_len(att, index)]
    /\ AttUnchanged

AttCert ==
    /\ att # <<>>
    /\ \E index \in 0..MaxIndex, offset \in 0..MaxOffset, dlen \in 0..MaxDest,
          alive \in BOOLEAN :
        \E c \in {AttestServer_cert(att, index, offset, dlen, alive)} :
          att' = [att EXCEPT !.op = "cert", !.index = index,
                             !.offset = offset, !.len = dlen,
                             !.client = c.client, !.res = c.res]
    /\ AttUnchanged

AttInit ==
    /\ S0Idle
    /\ LibIdle
    /\ hw = <<>>
    /\ srv = <<>>
    /\ YIdle
    /\ \E alias_ok \in BOOLEAN, certs_ok \in BOOLEAN,
          persist \in 0..MaxCertLen, inter \in (-1)..MaxCertLen :
          /\ ~certs_ok => persist = 0 /\ inter = -1
          /\ att = AttestServer_default(alias_ok, certs_ok, persist, inter)

AttNext == AttCertChainLen \/ AttCertLen \/ AttCert

SpecAttest == AttInit /\ [][AttNext]_vars

(******************************** RoT-R server *******************************)
MAX_MEASUREMENTS == 16

\* the digests a client records
Digests == {"fwid", "image"}

\* [0u8; MEASUREMENT_LEN]
NoMeasurement == "zero"

\* RotrServer::new
RotrServer_new ==
    [offset |-> 0,
     measurements |-> [i \in 1..MAX_MEASUREMENTS |-> NoMeasurement],
     op |-> "none", hash |-> NoMeasurement, res |-> <<"none">>]

\* a log that starts over at its first slot when it is full
RotrServer_record_wrapping(r, hash) ==
    IF r.offset < MAX_MEASUREMENTS
    THEN [r EXCEPT !.measurements[r.offset + 1] = hash, !.offset = @ + 1,
                   !.op = "record", !.hash = hash, !.res = <<"Ok">>]
    ELSE [r EXCEPT !.measurements[1] = hash, !.offset = 1,
                   !.op = "record", !.hash = hash, !.res = <<"Ok">>]

\* RotrServer::record (measurements is indexed from 1 here)
RotrServer_record(r, hash) ==
    IF r.offset < MAX_MEASUREMENTS
    THEN [r EXCEPT !.measurements[r.offset + 1] = hash, !.offset = @ + 1,
                   !.op = "record", !.hash = hash, !.res = <<"Ok">>]
    ELSE [r EXCEPT !.op = "record", !.hash = hash,
                   !.res = <<"Err", "LogFull">>]

RotrUnchanged == UNCHANGED <<svars, mem, hvars, l_mode, l_op, l_steps, c_kind,
                             c_buf, c_arg, c_key, c_panic, l_res, r_len,
                             r_dst, r_res, hw, srv, att, util, rd,
                             cv>>

\* the dispatch loop hands one record request to the server and the
\* handler runs to its end
RotrRecord ==
    /\ rotr # <<>>
    /\ \E hash \in Digests : rotr' = RotrServer_record(rotr, hash)
    /\ RotrUnchanged

RotrInit ==
    /\ S0Idle
    /\ LibIdle
    /\ hw = <<>> /\ srv = <<>> /\ att = <<>>
    /\ util = <<>> /\ rd = <<>> /\ cv = <<>>
    /\ rotr = RotrServer_new

RotrNext == RotrRecord

SpecRotr == RotrInit /\ [][RotrNext]_vars

(******************************* attest client ******************************)
MaxChunks == 2
CHUNK_SIZE == 256

\* the lengths of the certificates and logs retrieved
ObjectLens ==
    {c * CHUNK_SIZE + r : c \in 0..MaxChunks, r \in {0, 1, CHUNK_SIZE - 1}}

\* byte k (from 0) of the certificate or of the serialized log
ObjectByte(op, k) == <<op, k>>

\* Attest::cert / Attest::log as the client sees it: n bytes from offset of
\* an object of len bytes, OutOfRange when there are not that many
AttestChunk(op, len, offset, n) ==
    IF offset + n > len THEN <<"Err", "OutOfRange">>
    ELSE <<"Ok", [i \in 1..n |-> ObjectByte(op, offset + i - 1)]>>

\* get_cert / get_log has read the length and tested dst against it
AttestUtil_call(op, len, dst_len) ==
    [op |-> op, len |-> len,
     dst |-> [i \in 1..dst_len |-> "zero"],
     chunk |-> 0, requests |-> <<>>,
     pc |-> IF dst_len < len THEN "panic" ELSE "chunks",
     res |-> "none"]

\* dst[offset..offset + n].copy_from_slice(bytes)
CopyToDst(dst, offset, bytes) ==
    [i \in 1..Len(dst) |->
        IF i > offset /\ i <= offset + Len(bytes) THEN bytes[i - offset]
        ELSE dst[i]]

\* one request for n bytes at offset, copied to dst at the same offset;
\* the client panics on an error of the server
AttestUtil_get_chunk(u, offset, n) ==
    LET got == AttestChunk(u.op, u.len, offset, n)
    IN IF got[1] = "Err"
       THEN [u EXCEPT !.requests = Append(@, <<offset, n>>), !.pc = "panic"]
       ELSE [u EXCEPT !.requests = Append(@, <<offset, n>>),
                      !.dst = CopyToDst(@, offset, got[2])]

\* AttestUtil::get_cert and AttestUtil::get_log, one request to the server
\* at a time: the whole chunks of the for loop, then the remainder and the
\* return
AttestUtil_step(u) ==
    IF u.chunk < u.len \div CHUNK_SIZE
    THEN [AttestUtil_get_chunk(u, u.chunk * CHUNK_SIZE, CHUNK_SIZE)
             EXCEPT !.chunk = @ + 1]
    ELSE LET remain == u.len % CHUNK_SIZE
             offset == u.len \div CHUNK_SIZE
             v == IF remain > 0 THEN AttestUtil_get_chunk(u, offset, remain)
                  ELSE u
         IN IF v.pc = "panic" THEN v
            ELSE [v EXCEPT !.pc = "done", !.res = u.len]

UtilUnchanged == UNCHANGED <<svars, mem, hvars, l_mode, l_op, l_steps, c_kind,
                             c_buf, c_arg, c_key, c_panic, l_res, r_len,
                             r_dst, r_res, hw, srv, att, rotr, rd,
                             cv>>

\* the test task starts a retrieval; dst is as long as the object, one byte
\* longer or one byte too short
UtilCall ==
    /\ util # <<>>
    /\ util.pc \in {"idle", "done"}
    /\ \E op \in {"get_cert", "get_log"}, len \in ObjectLens,
          slack \in {-1, 0, 1} :
          /\ len + slack >= 0
          /\ util' = AttestUtil_call(op, len, len + slack)
    /\ UtilUnchanged

UtilStep ==
    /\ util # <<>>
    /\ util.pc = "chunks"
    /\ util' = AttestUtil_step(util)
    /\ UtilUnchanged

UtilInit ==
    /\ S0Idle
    /\ LibIdle
    /\ hw = <<>> /\ srv = <<>> /\ att = <<>>
    /\ rotr = <<>> /\ rd = <<>> /\ cv = <<>>
    /\ util = [AttestUtil_call("get_cert", 0, 0) EXCEPT !.pc = "idle"]

UtilNext == UtilCall \/ UtilStep

SpecAttestUtil == UtilInit /\ [][UtilNext]_vars

(********************************* read_until ********************************)
MaxRdDst == 3
MaxTerm == 2

\* the bytes the UART delivers
UartBytes == {0, 1}

\* the terminators tried: every sequence of at most MaxTerm bytes
Terms == UNION {[1..n -> UartBytes] : n \in 0..MaxTerm}

\* read_until is called: the argument test, then the locals; dst has a cell
\* behind its end that no write may reach, and -1 marks a cell not written
read_until_call(dst_len, term) ==
    [dst_len |-> dst_len, term |-> term,
     dst |-> [i \in 1..(dst_len + 1) |-> -1],
     pos |-> 0, received |-> <<>>,
     pc |-> IF dst_len = 0 \/ term = <<>> \/ Len(term) > dst_len
            THEN "panic" ELSE "reading",
     res |-> <<"none">>]

\* the last Len(term) bytes of dst[..pos] are term, compared from the end
TermAtEnd(dst, pos, term) ==
    \A k \in 1..Len(term) : dst[pos - k + 1] = term[Len(term) - k + 1]

\* a read_until that tests for the full buffer one byte late
read_until_byte_late(r, b) ==
    IF r.pos > r.dst_len
    THEN [r EXCEPT !.received = Append(@, b), !.pc = "done",
                   !.res = <<"Err", "BufFull">>]
    ELSE LET dst == [r.dst EXCEPT ![r.pos + 1] = b]
             pos == r.pos + 1
         IN IF Len(r.term) <= pos /\ TermAtEnd(dst, pos, r.term)
            THEN [r EXCEPT !.received = Append(@, b), !.dst = dst,
                           !.pos = pos, !.pc = "done", !.res = <<"Ok", pos>>]
            ELSE [r EXCEPT !.received = Append(@, b), !.dst = dst,
                           !.pos = pos]

\* read_until, one pass of the loop in which usart.read() gave Ok(b)
read_until_byte(r, b) ==
    IF r.pos > r.dst_len - 1
    THEN [r EXCEPT !.received = Append(@, b), !.pc = "done",
                   !.res = <<"Err", "BufFull">>]
    ELSE LET dst == [r.dst EXCEPT ![r.pos + 1] = b]
             pos == r.pos + 1
         IN IF Len(r.term) <= pos /\ TermAtEnd(dst, pos, r.term)
            THEN [r EXCEPT !.received = Append(@, b), !.dst = dst,
                           !.pos = pos, !.pc = "done", !.res = <<"Ok", pos>>]
            ELSE [r EXCEPT !.received = Append(@, b), !.dst = dst,
                           !.pos = pos]

RdUnchanged == UNCHANGED <<svars, mem, hvars, l_mode, l_op, l_steps, c_kind,
                           c_buf, c_arg, c_key, c_panic, l_res, r_len,
                           r_dst, r_res, hw, srv, att, rotr, util,
                           cv>>

\* a caller starts read_until
RdCall ==
    /\ rd # <<>>
    /\ rd.pc # "reading"
    /\ \E dst_len \in 0..MaxRdDst, term \in Terms :
          rd' = read_until_call(dst_len, term)
    /\ RdUnchanged

\* usart.read() returns a byte (WouldBlock changes nothing and is left to
\* stuttering)
RdByte ==
    /\ rd # <<>>
    /\ rd.pc = "reading"
    /\ \E b \in UartBytes : rd' = read_until_byte(rd, b)
    /\ RdUnchanged

\* usart.read() returns an error, which read_until returns
RdError ==
    /\ rd # <<>>
    /\ rd.pc = "reading"
    /\ \E e \in {"Framing", "Parity", "Noise"} :
          rd' = [rd EXCEPT !.pc = "done", !.res = <<"Err", e>>]
    /\ RdUnchanged

RdInit ==
    /\ S0Idle
    /\ LibIdle
    /\ hw = <<>> /\ srv = <<>> /\ att = <<>>
    /\ rotr = <<>> /\ util = <<>> /\ cv = <<>>
    /\ rd = [read_until_call(1, <<0>>) EXCEPT !.pc = "idle"]

RdNext == RdCall \/ RdByte \/ RdError

SpecReadUntil == RdInit /\ [][RdNext]_vars

(**************************** RngError conversions ***************************)
MaxFrames == 16
MaxCode == 6

\* the callee of each function of From<RngError> for u16: from calls
\* u16::try_from, which for an RngError is core's TryFrom<U> for T where
\* U: Into<T>; that calls Into::into, which calls From<RngError> for u16
U16Callee == [from |-> "try_from", try_from |-> "into", into |-> "from"]

\* a conversion with nothing filled in: the argument is the variant e, the
\* number u or the rand_core::Error [custom, u]; the result is the number
\* r_u, the Error [r_custom, r_u] or the variant r_e
NoConversion ==
    [op |-> "none", e |-> "none", u |-> 0, custom |-> FALSE,
     inlined |-> FALSE, stack |-> <<>>, pc |-> "done", tag |-> "none",
     r_e |-> "none", r_u |-> 0, r_custom |-> FALSE]

\* a conversion is called: to u32 (the cast), to rand_core::Error, back from
\* a number or an Error, and to u16, which begins with the frame of from
RngError_convert(op, e, u, custom, inlined) ==
    CASE op = "u32" ->
           [NoConversion EXCEPT !.op = op, !.e = e, !.tag = "Ok",
                                !.r_u = RngErrorCode[e]]
      [] op = "Error" ->
           [NoConversion EXCEPT !.op = op, !.e = e, !.tag = "Ok",
                                !.r_u = Error_from_RngError(e).code,
                                !.r_custom = Error_from_RngError(e).custom]
      [] op = "from_u32" ->
           [NoConversion EXCEPT !.op = op, !.u = u, !.tag = "Ok",
                                !.r_e = RngError_from_u32(u)]
      [] op = "from_Error" ->
           [NoConversion EXCEPT
               !.op = op, !.u = u, !.custom = custom, !.tag = "Ok",
               !.r_e = RngError_from_Error([custom |-> custom, code |-> u])]
      [] OTHER ->
           [NoConversion EXCEPT !.op = "u16", !.e = e, !.inlined = inlined,
                                !.stack = <<"from">>, !.pc = "run"]

\* From<RngError> for u16, one call: the function on top calls its callee;
\* a build that keeps the frames faults when the stack is full, one that
\* folds the calls into a loop keeps a single frame
u16_from_RngError_step(c) ==
    LET callee == U16Callee[c.stack[Len(c.stack)]]
    IN IF c.inlined
       THEN [c EXCEPT !.stack = <<callee>>]
       ELSE IF Len(c.stack) = MaxFrames
            THEN [c EXCEPT !.pc = "done", !.tag = "StackOverflow"]
            ELSE [c EXCEPT !.stack = Append(@, callee)]

CvUnchanged == UNCHANGED <<svars, mem, hvars, l_mode, l_op, l_steps, c_kind,
                           c_buf, c_arg, c_key, c_panic, l_res, r_len,
                           r_dst, r_res, hw, srv, att, rotr, util, rd>>

\* a conversion is called
CvCall ==
    /\ cv # <<>>
    /\ cv.pc # "run"
    /\ \/ \E op \in {"u32", "Error"}, e \in DOMAIN RngErrorCode :
             cv' = RngError_convert(op, e, 0, FALSE, FALSE)
       \/ \E e \in DOMAIN RngErrorCode, inlined \in BOOLEAN :
             cv' = RngError_convert("u16", e, 0, FALSE, inlined)
       \/ \E u \in 0..MaxCode :
             cv' = RngError_convert("from_u32", "none", u, FALSE, FALSE)
       \/ \E u \in 0..MaxCode, custom \in BOOLEAN :
             cv' = RngError_convert("from_Error", "none", u, custom, FALSE)
    /\ CvUnchanged

\* the conversion to u16 makes its next call
CvStep ==
    /\ cv # <<>>
    /\ cv.pc = "run"
    /\ cv' = u16_from_RngError_step(cv)
    /\ CvUnchanged

CvInit ==
    /\ S0Idle
    /\ LibIdle
    /\ hw = <<>> /\ srv = <<>> /\ att = <<>>
    /\ rotr = <<>> /\ util = <<>> /\ rd = <<>>
    /\ cv = [NoConversion EXCEPT !.pc = "idle"]

CvNext == CvCall \/ CvStep

SpecRngError == CvInit /\ [][CvNext]_vars

\* a call that has begun runs on
SpecRngErrorFair == SpecRngError /\ WF_vars(CvStep)

(***************************** properties: serial manufacturing **************)
SerialReadPhases ==
    {"serial_warmup", "get_dname_sn", "certify_csr_wait_plz",
     "certify_csr_wait_ack"}

SerialPhases ==
    SerialReadPhases \cup {"certify_csr_send_ack", "certify_csr_send_csr"}

\* the loop of the driver a position belongs to
Phase(p) ==
    CASE p \in {"certify_csr_send_ack", "certify_csr_wait_plz"} -> "certify_csr_1"
      [] p \in {"certify_csr_send_csr", "certify_csr_wait_ack"} -> "certify_csr_2"
      [] OTHER -> p

\* a step in which the driver reads a frame (rx' tells which)
ReadStep ==
    /\ variant = "dice_mfg"
    /\ pc \in SerialReadPhases
    /\ boots' = boots
    /\ late_read' = late_read

Nak == <<Msg("Nak", NoCsr)>>

\* C16: the driver never sends a CSR before it has recorded a platform
\* serial number; a CSR request received while none is recorded is answered
\* with Nak and no CSR; a CSR that is sent carries the recorded serial number
\* as its subject.
C16_NoCsrBeforeSerialNumber ==
    /\ []((Len(tx) > 0 /\ tx[1].msg = "Csr") =>
            /\ mfg_dname_sn # <<>>
            /\ tx[1].csr.cn = mfg_dname_sn)
    /\ [][(ReadStep /\ rx' = "PlzSendCsr" /\ mfg_dname_sn = <<>>) =>
            tx' = Nak]_vars

\* C17: the exchange terminates only when serial number, identity
\* certificate and intermediate certificate have all been received, and the
\* state returned holds the three; a Break received while one is missing is
\* answered negatively and leaves the driver waiting where it was.
C17_ReturnsOnlyWithAllThree ==
    /\ []((variant = "dice_mfg" /\ pc = "uart") =>
            LET dice_state == DeviceIdSerialMfg_run(mfg_dname_sn)
            IN /\ dice_state.serial_number \in HostSerials
               /\ dice_state.device_id # CertBlob_default
               /\ dice_state.intermediate # CertBlob_default)
    /\ [][(ReadStep /\ rx' = "Break") =>
            (tx' = Nak /\ Phase(pc') = Phase(pc))]_vars

\* C18: in every phase a frame that fails to decode and a transport error
\* are silently dropped: no reply is sent, and the phase, the recorded serial
\* number and the rest of the protocol state stay as they were.
C18_ErrorsSilentlyDropped ==
    [][(ReadStep /\ rx' \in {"transport_error", "decode_error"}) =>
        /\ tx' = <<>>
        /\ Phase(pc') = Phase(pc)
        /\ UNCHANGED <<mfg_dname_sn, mfg_csr, rx_log>>]_vars

\* the messages that end the loops of the driver, in their order
RequiredMessages == <<"Break", "SerialNumber", "PlzSendCsr", "CsrAck">>

\* C19: the driver has no timeout: it leaves the exchange only by reading
\* the message that ends its last loop, it has returned only after the host
\* delivered every message the protocol requires, and when the host sooner
\* or later sends each required message (the UART taking every byte) the
\* driver eventually returns.
C19_ReturnsOnlyAndEventually ==
    /\ []((variant = "dice_mfg" /\ pc = "uart") => rx_log = RequiredMessages)
    /\ [][(pc \in SerialPhases /\ pc' \notin SerialPhases /\ boots' = boots) =>
            (ReadStep /\ pc' = "uart" /\ rx' = "CsrAck")]_vars
    /\ (variant = "dice_mfg" /\ pc = "serial_warmup")
           ~> (pc = "uart" \/ pc = "start")

\* the driver has returned after the four messages, the last being CsrAck
C19_Witness ==
    /\ variant = "dice_mfg"
    /\ pc = "uart"
    /\ rx = "CsrAck"
    /\ rx_log = RequiredMessages
    /\ mfg_dname_sn \in HostSerials

(***************************** properties: self-signed manufacturing *********)
\* C15: self-signed manufacturing always completes without panicking and
\* returns the placeholder serial number "0123456789ab", an identity
\* certificate self-signed by the supplied keypair and an empty intermediate
\* certificate slot.
C15_SelfMfgCompletes ==
    (l_mode = "selfmfg" /\ l_op = "run") =>
        /\ ~l_res.panicked
        /\ l_res.serial_number = SerialNumber("0123456789ab")
        /\ BTake(l_res.device_id, DEVICEID_SIZE) =
              DeviceIdCertBuilder("deviceid-self", CertSerialNumber_default,
                                  l_res.serial_number, c_key.public, c_key)
        /\ l_res.intermediate = CertBlob_default

(***************************** properties: random numbers ********************)
\* C20: for every destination length, 0 and lengths that are no multiple
\* of 4 included, a try_fill_bytes call on the hardware RNG or on the
\* reseeding RNG does not panic, and one that returns Ok has written
\* exactly dst.len() bytes, every byte of dst exactly once.
C20_FillWritesEveryByteOnce ==
    (l_mode = "rng" /\ l_op # "new") =>
        /\ r_res # "panic"
        /\ r_res = "ok" =>
              /\ Len(r_dst) = r_len
              /\ \A i \in 1..r_len : r_dst[i] = 1

(***************************** properties: certificates **********************)
\* the bytes of a field of a leaf certificate
LeafField(cert, f) ==
    BSlice(cert, TmplRanges("leaf")[f][1], TmplRanges("leaf")[f][2])

\* the leaf certificate in field certf of the blob of type T in SRAM carries
\* the digest of this run, the platform serial number and the public key of
\* the seed in field seedf of the same blob
LeafMatchesRun(T, certf, seedf) ==
    LET d == from_mem(T, mem)
        cert == d.data[certf]
        seed == d.data[seedf]
    IN /\ d.some
       /\ fwid = gen_fwid(image)
       /\ LeafField(cert, "FWID") = Tok(fwid, SEED_LENGTH)
       /\ LeafField(cert, "SUBJECT_SN") = serial_numbers.serial_number
       /\ LeafField(cert, "ISSUER_SN") = serial_numbers.serial_number
       /\ Len(seed) = 1
       /\ LeafField(cert, "PUB") =
              Tok(Keypair_from(seed[1].v).public, PUBLICKEY_LENGTH)

\* the signature field of a certificate is the issuer's signature over the
\* sign data the certificate holds
SignedBy(kind, cert, issuer) ==
    BSlice(cert, TmplRanges(kind).SIG[1], TmplRanges(kind).SIG[2])
        = Keypair_sign(issuer, get_signdata(kind, cert))

\* the DeviceId certificate in the CERTS region
StoredDeviceIdCert ==
    BTake(from_mem("CertData", mem).data["device_id"], DEVICEID_SIZE)

\* the leaf certificates in SRAM are signed by the DeviceId key, and the CSR
\* of the serial exchange by the key it certifies
LeavesAndCsrSigned ==
    /\ "AliasData" \in stored =>
          /\ SignedBy("leaf", from_mem("AliasData", mem).data["alias_cert"],
                      deviceid_keypair)
          /\ SignedBy("leaf", from_mem("AliasData", mem).data["tqdhe_cert"],
                      deviceid_keypair)
    /\ "SpMeasureData" \in stored =>
          SignedBy("leaf", from_mem("SpMeasureData", mem).data["spmeasure_cert"],
                   deviceid_keypair)
    /\ mfg_csr # NoCsr =>
          mfg_csr.sig = Keypair_sign(deviceid_keypair, Csr_get_signdata(mfg_csr))
    /\ (Len(tx) > 0 /\ tx[1].msg = "Csr") => tx[1].csr = mfg_csr

C13_LeafFieldsMatchRun ==
    /\ "AliasData" \in stored =>
          /\ LeafMatchesRun("AliasData", "alias_cert", "alias_seed")
          /\ LeafMatchesRun("AliasData", "tqdhe_cert", "tqdhe_seed")
    /\ "SpMeasureData" \in stored =>
          LeafMatchesRun("SpMeasureData", "spmeasure_cert", "seed")

\* a run given a serial number by the host has stored its three leaf
\* certificates
C13_Witness ==
    /\ pc = "returned"
    /\ mfg_path = "mfg"
    /\ {"AliasData", "SpMeasureData"} \subseteq stored
    /\ serial_numbers.serial_number \in HostSerials
    /\ LeafField(from_mem("SpMeasureData", mem).data["spmeasure_cert"], "FWID")
           = Tok(gen_fwid(image), SEED_LENGTH)

\* C12: every mutator of a certificate (set_serial_number, set_issuer_sn,
\* set_subject_sn, set_pub, set_fwid) writes exactly the bytes of its own
\* template range and leaves every other byte as it was, and sign leaves
\* every byte outside the SIG range as it was.
C12_SettersWriteOwnRange ==
    [][(l_mode = "cert" /\ l_steps' = l_steps + 1) =>
        LET r == TmplRanges(c_kind)[OpField[l_op']]
        IN /\ BLen(c_buf') = BLen(c_buf)
           /\ BTake(c_buf', r[1]) = BTake(c_buf, r[1])
           /\ BDrop(c_buf', r[2]) = BDrop(c_buf, r[2])
           /\ BSlice(c_buf', r[1], r[2]) = c_arg']_vars

\* a setter has acted on a certificate that was signed before
C12_Witness ==
    /\ l_mode = "cert"
    /\ l_op = "set_subject_sn"
    /\ c_key # NoKeypair
    /\ c_arg \in HostSerials
    /\ BSlice(c_buf, TmplRanges(c_kind).SIG[1], TmplRanges(c_kind).SIG[2])
           # BSlice(CERT_TMPL(c_kind, c_kind), TmplRanges(c_kind).SIG[1],
                    TmplRanges(c_kind).SIG[2])

HwReturned(op) == hw.op = op /\ hw.pc = "idle"

\* the observations of a read in which RANDOM_NUMBER was read
NumberReads == {i \in 1..Len(hw.trace) : hw.trace[i] = "RANDOM_NUMBER"}

\* C27: init and read terminate whatever the status registers hold: a
\* polling loop sleeps at most RETRY_MAX (5) times, the outer loop of init
\* retries at most 5 times, a poll either ends its wait, sleeps once more or
\* returns, a wait that is exhausted returns an error, and every call that
\* has begun returns.
C27_InitAndReadTerminate ==
    /\ [](/\ hw.sleeps <= RetryMax(hw.impl, hw.op)
          /\ hw.retry <= RetryMax(hw.impl, hw.op)
          /\ hw.retry_chi_min <= RetryMax(hw.impl, hw.op)
          /\ RetryMax(hw.impl, hw.op) = 5
          /\ hw.cond \in {"init_chi_min", "init_chi_gt4", "read_refresh",
                          "read_chi"} => hw.res \notin {"Ok", "none"})
    /\ [][hw.pc # "idle" =>
            \/ hw'.pc = "idle"
            \/ hw'.pc # hw.pc
            \/ hw'.sleeps = hw.sleeps + 1]_vars
    /\ (hw.pc # "idle") ~> (hw.pc = "idle")

\* init has given up after the last retry of its outer loop
C27_Witness ==
    /\ HwReturned("init")
    /\ hw.res = "TimeoutChi2Gt4"
    /\ hw.retry = RETRY_MAX

\* C28: read returns Ok(n) only if the RNG was powered on at entry,
\* refresh_cnt = 31 was observed immediately before RANDOM_NUMBER was read
\* and max_chi_squared <= 4 was observed after that read; powered off, it
\* returns PoweredOff without reading RANDOM_NUMBER; with a wait exhausted
\* it returns an error and no value.
C28_ReadOkOnlyAfterChecks ==
    HwReturned("read") =>
        /\ hw.res = "Ok" =>
              /\ hw.trace[1] = "powered_on"
              /\ \E i \in 2..Len(hw.trace) :
                    /\ NumberReads = {i}
                    /\ hw.trace[i - 1] = "refresh_31"
                    /\ i < Len(hw.trace)
              /\ hw.trace[Len(hw.trace)] = "chi_le4"
              /\ hw.value = "random_number"
        /\ hw.trace[1] = "powered_off" =>
              /\ hw.res = "PoweredOff"
              /\ NumberReads = {}
              /\ hw.value = "none"
        /\ hw.cond \in {"read_refresh", "read_chi"} =>
              /\ hw.res \notin {"Ok", "none"}
              /\ hw.value = "none"

\* a read has returned a number after sleeping in both of its waits
C28_Witness ==
    /\ HwReturned("read")
    /\ hw.res = "Ok"
    /\ \E i, j \in 1..Len(hw.trace) :
          hw.trace[i] = "refresh_not_31" /\ hw.trace[j] = "chi_gt4"

\* the error variant the specification names for each condition
NamedVariant ==
    [init_chi_min |-> "TimeoutChi2Min", init_chi_gt4 |-> "TimeoutChi2Gt4",
     read_refresh |-> "NoEntropy", read_chi |-> "NoEntropy",
     powered_off |-> "PoweredOff"]

\* C29: each retry-exhaustion condition reaches the caller as the variant
\* named for it: the wait for max_chi_squared > min_chi_squared as
\* TimeoutChi2Min, the retries while max_chi_squared > 4 as TimeoutChi2Gt4,
\* a read wait as NoEntropy, a powered-off RNG as PoweredOff, and no
\* condition as the variant of another.
C29_ExhaustionErrorVariants ==
    (hw.pc = "idle" /\ hw.res \notin {"none", "Ok"}) =>
        hw.caller = NamedVariant[hw.cond]

(***************************** properties: RNG server ************************)
\* the reseeding generator has a threshold K > 0
Reseeds == srv.g.rng.threshold # USIZE_MAX

\* a fill of the lpc55 server has returned
Lpc55Filled == srv.impl = "lpc55" /\ srv.op = "fill"

\* C21: with threshold K > 0 and any sequence of try_fill_bytes calls: once
\* K bytes have been handed out since the last (re)seed a reseed occurs
\* before any further byte, so after N bytes in total at least floor(N/K)
\* reseeds have occurred.
C21_ReseedEveryThresholdBytes ==
    Reseeds =>
        /\ srv.g.inner.pos <= srv.g.rng.threshold
        /\ srv.g.draws >= srv.g.out \div srv.g.rng.threshold

\* C22: with a threshold of 64 bytes and a new generator, one request for
\* 200 bytes causes exactly three reseeds, and the bytes returned are the
\* segments of the successive seeds, split at the 64-byte boundaries.
C22_ThreeReseedsAtBoundaries ==
    (/\ srv.g.rng.threshold = ScenarioThreshold
     /\ srv.calls = 1
     /\ srv.res = <<"Ok", ScenarioRequest>>) =>
        /\ srv.g.draws = 3
        /\ srv.delivered =
              [i \in 1..4 |->
                 [draw |-> i - 1, from |-> 0,
                  n |-> IF i < 4 THEN ScenarioThreshold
                        ELSE ScenarioRequest - 3 * ScenarioThreshold]]

\* C23: on every reseed the new ChaCha20 seed is derived from 32 bytes of
\* the current ChaCha20 stream and from 32 bytes newly read from the
\* hardware RNG.
C23_SeedFromStreamAndHardware ==
    (Reseeds /\ srv.g.draws > 0) =>
        /\ \E i \in 1..Len(srv.g.inner.seed) :
              /\ srv.g.inner.seed[i].src = "chacha"
              /\ srv.g.inner.seed[i].n = 32
        /\ \E i \in 1..Len(srv.g.inner.seed) :
              /\ srv.g.inner.seed[i].src = "hw"
              /\ srv.g.inner.seed[i].n = 32

\* C24: for every lease length n, a fill that succeeds returns n and has
\* written every byte 0..n of the lease exactly once, in chunks of at most
\* 32 bytes; no fill writes outside the lease.
C24_FillWritesLeaseOnce ==
    srv.op = "fill" =>
        /\ \A i \in (srv.len + 1)..Len(srv.client) : srv.client[i].writes = 0
        /\ srv.res[1] = "Ok" =>
              /\ srv.res[2] = srv.len
              /\ \A i \in 1..srv.len : srv.client[i].writes = 1
              /\ \A c \in srv.chunks : c >= 1 /\ c <= 32

\* the lpc55 server has filled a lease whose length is no multiple of the
\* chunk size
C24_Witness ==
    /\ Lpc55Filled
    /\ srv.res = <<"Ok", STEP + 1>>
    /\ srv.chunks = {STEP, 1}
    /\ srv.client[STEP + 1].writes = 1

C26_DeliveredStreamContinuous ==
    Lpc55Filled =>
        \A i \in 1..Len(srv.delivered) :
            /\ srv.delivered[i].from = 0
            /\ i > 1 => srv.delivered[i].draw = srv.delivered[i - 1].draw + 1
            /\ i < Len(srv.delivered) =>
                  srv.delivered[i].n = srv.g.rng.threshold

(**************************** properties: attest server **********************)
\* the certificate data was loaded from the handoff region
CertsLoaded == att.cert_data # Absent

ChainLenReturned == att.op = "cert_chain_len"

\* C30 as stated: in every server state cert_chain_len() returns 3 or 4, 3
\* exactly when the intermediate certificate is absent, 4 exactly when it
\* is present.
C30_ChainLenThreeOrFour ==
    ChainLenReturned =>
        /\ att.res \in {<<"Ok", 3>>, <<"Ok", 4>>}
        /\ att.res = <<"Ok", 4>> <=>
              (CertsLoaded /\ att.cert_data[1].intermediate_cert # Absent)

\* C30 amended: in every server state where the certificate data was
\* loaded cert_chain_len() returns 3 or 4, 3 exactly when the intermediate
\* certificate is absent, 4 exactly when it is present; where it was not
\* loaded the call returns NoCerts.
C30_ChainLenWhereLoaded ==
    ChainLenReturned =>
        /\ CertsLoaded =>
              /\ att.res \in {<<"Ok", 3>>, <<"Ok", 4>>}
              /\ att.res = <<"Ok", 4>> <=>
                    att.cert_data[1].intermediate_cert # Absent
        /\ ~CertsLoaded => att.res = <<"Err", "NoCerts">>

\* cert_chain_len has returned 4 with an intermediate certificate loaded
C30_Witness ==
    /\ ChainLenReturned
    /\ CertsLoaded
    /\ att.cert_data[1].intermediate_cert # Absent
    /\ att.res = <<"Ok", 4>>

\* cert_len has returned for att.index
CertLenReturned == att.op = "cert_len"

\* C31: cert_len(index) succeeds exactly for the indexes below the value n
\* that cert_chain_len() reports and returns InvalidCertIndex for every
\* index at or above it.
C31_CertLenBelowChainLen ==
    (CertLenReturned /\ AttestServer_cert_chain_len(att)[1] = "Ok") =>
        LET n == AttestServer_cert_chain_len(att)[2]
        IN /\ att.index < n => att.res[1] = "Ok"
           /\ att.index >= n => att.res = <<"Err", "InvalidCertIndex">>

\* the certificate names of the chain, leaf first
ChainOrder == <<"alias_cert", "deviceid_cert", "persistid_cert",
                "intermediate_cert">>

\* cert has copied bytes of the certificate at att.index into the lease
CertCopied == att.op = "cert" /\ att.res = <<"Ok">> /\ att.len > 0

CertOfValidIndex ==
    att.op = "cert" /\ AttestServer_cert_len(att, att.index)[1] = "Ok"

\* C33: for a valid index cert(index, offset, dst) returns OutOfRange
\* exactly when offset + dst.len() > cert_len(index), for every offset and
\* without a panic; otherwise it writes cert[offset .. offset + dst.len()]
\* into the lease.
C33_CertOutOfRangeOrCopy ==
    CertOfValidIndex =>
        LET bytes == get_cert_bytes_from_index(att, att.index)[2]
        IN /\ att.res # <<"panic">>
           /\ att.res = <<"Err", "OutOfRange">> <=>
                 att.offset + att.len > Len(bytes)
           /\ att.offset + att.len <= Len(bytes) =>
                 /\ att.res \in {<<"Ok">>, <<"Fail", "WentAway">>}
                 /\ att.res = <<"Ok">> =>
                       \A k \in 1..att.len :
                           att.client[k].byte = bytes[att.offset + k]

(***************************** properties: RoT-R server **********************)
\* the measurement log: the entries recorded so far, in order
MeasurementLog(r) == SubSeq(r.measurements, 1, r.offset)

\* C34: the measurement log is append-only with capacity 16: a record call
\* either appends the digest as the new last entry and leaves the earlier
\* entries and their order as they were, or fails with LogFull and leaves
\* the log as it was; it fails exactly when 16 entries are present, and
\* every state between two requests holds whole entries only.
C34_LogAppendOnly ==
    /\ [](rotr # <<>> =>
            /\ rotr.offset <= 16
            /\ \A i \in 1..rotr.offset : rotr.measurements[i] \in Digests)
    /\ [][rotr'.op = "record" =>
            IF Len(MeasurementLog(rotr)) = 16
            THEN /\ rotr'.res = <<"Err", "LogFull">>
                 /\ MeasurementLog(rotr') = MeasurementLog(rotr)
            ELSE /\ rotr'.res = <<"Ok">>
                 /\ MeasurementLog(rotr')
                       = Append(MeasurementLog(rotr), rotr'.hash)]_vars

\* a record call has failed on a log of 16 entries
C34_Witness ==
    /\ rotr.op = "record"
    /\ rotr.res = <<"Err", "LogFull">>
    /\ Len(MeasurementLog(rotr)) = MAX_MEASUREMENTS
    /\ rotr.measurements[1] # rotr.measurements[MAX_MEASUREMENTS]

(************************ properties: hardware RNG init **********************)
\* init is waiting for MIN_CHI_SQUARED < MAX_CHI_SQUARED
InitWaiting == hw.op = "init" /\ hw.pc = "init_chi_min"

\* C35: during init every pass that observes max_chi_squared > 4 disables
\* the online test and increments shift4x by one, saturating at 7, and the
\* test is enabled again before the next wait; init returns Ok only with
\* the online test enabled and after last observing
\* min_chi_squared < max_chi_squared <= 4.
C35_InitShift4xAndOnlineTest ==
    /\ [](hw # <<>> =>
            /\ hw.shift4x <= 7
            /\ InitWaiting => hw.activate
            /\ HwReturned("init") /\ hw.res = "Ok" =>
                  /\ hw.activate
                  /\ hw.last_min = "min_lt_max"
                  /\ hw.last_max = "chi_le4")
    /\ [][(/\ hw # <<>>
           /\ hw.op = "init" /\ hw.pc = "init_chi_gt4"
           /\ hw'.last_max = "chi_gt4") =>
             /\ ~hw'.activate
             /\ hw'.shift4x = IF hw.shift4x < 7 THEN hw.shift4x + 1 ELSE 7]_vars

\* init has returned Ok after a pass that found SHIFT4X at 7 already
C35_Witness ==
    /\ HwReturned("init")
    /\ hw.res = "Ok"
    /\ hw.retry >= 1
    /\ hw.shift4x_reset = SHIFT4X_MAX
    /\ hw.shift4x = SHIFT4X_MAX
    /\ hw.activate

(**************************** properties: attest client **********************)
\* get_cert or get_log has returned
Retrieved == util # <<>> /\ util.pc = "done"

\* C36: the chunked retrieval reassembles the whole object: for every
\* length len, get_cert and get_log request chunks at offsets 0, 256, 512,
\* ... and the last, partial chunk at offset (len / 256) * 256, and on
\* return dst[..len] is the complete certificate or log.
C36_ChunksReassembleObject ==
    Retrieved =>
        /\ util.res = util.len
        /\ \A k \in 1..Len(util.requests) :
              util.requests[k][1] = (k - 1) * 256
        /\ \A i \in 1..util.len : util.dst[i] = ObjectByte(util.op, i - 1)

(****************************** properties: read_until ***********************)
\* the sequence s ends with the terminator t
EndsWith(s, t) ==
    Len(t) <= Len(s) /\ SubSeq(s, Len(s) - Len(t) + 1, Len(s)) = t

\* the first n of the bytes received hold no complete terminator at the
\* end of any prefix
NoTermUpTo(n) ==
    \A k \in 1..n : ~EndsWith(SubSeq(rd.received, 1, k), rd.term)

\* C37: read_until(dst, term) returns Ok(n) exactly when the n-th byte
\* received completes the first occurrence of term at the end of the bytes
\* received, with n <= dst.len() and dst[..n] the bytes received in order;
\* it never writes outside dst, and when dst.len() bytes are stored without
\* completing term the next byte gives BufFull.
C37_ReadUntilFirstTerm ==
    (rd # <<>> /\ rd.pc \in {"reading", "done"}) =>
        /\ rd.dst[rd.dst_len + 1] = -1
        /\ rd.pos <= rd.dst_len
        /\ SubSeq(rd.dst, 1, rd.pos) = SubSeq(rd.received, 1, rd.pos)
        /\ rd.pc = "reading" =>
              /\ rd.pos = Len(rd.received)
              /\ NoTermUpTo(Len(rd.received))
        /\ \A n \in 0..(MaxRdDst + 1) :
              rd.res = <<"Ok", n>> <=>
                 /\ rd.pc = "done"
                 /\ n = Len(rd.received) /\ n <= rd.dst_len
                 /\ EndsWith(rd.received, rd.term)
                 /\ NoTermUpTo(n - 1)
        /\ rd.res = <<"Err", "BufFull">> <=>
              /\ rd.pc = "done"
              /\ Len(rd.received) = rd.dst_len + 1
              /\ rd.pos = rd.dst_len
              /\ NoTermUpTo(rd.dst_len)

\* a two-byte terminator was completed by the third byte, after a first
\* byte that begins it
C37_Witness ==
    /\ rd # <<>>
    /\ rd.res = <<"Ok", 3>>
    /\ rd.term = <<1, 0>>
    /\ rd.received = <<1, 1, 0>>
    /\ rd.dst_len = 3

(*************************** properties: RngError codes **********************)
\* the conversion of a variant to a code or to rand_core::Error
ToCode == cv # <<>> /\ cv.op \in {"u16", "u32", "Error"}

\* a finished conversion of a variant gave a result that converts back to
\* the variant
RoundTrips ==
    IF ToCode /\ cv.pc = "done" /\ cv.tag = "Ok"
    THEN CASE cv.op = "Error" ->
                RngError_from_Error([custom |-> cv.r_custom,
                                     code |-> cv.r_u]) = cv.e
           [] OTHER -> RngError_from_u32(cv.r_u) = cv.e
    ELSE FALSE

\* a conversion of a variant is running
Converting == IF ToCode THEN cv.pc = "run" ELSE FALSE

\* a conversion of a variant has returned or ended the task
Converted == IF ToCode THEN cv.pc = "done" ELSE FALSE

\* C38: every RngError variant has a distinct integer code, and converting a
\* variant to its u16 or u32 code or to rand_core::Error terminates without
\* a panic with a result that converts back to the same variant.
C38_ConversionsTotalRoundTrip ==
    /\ [](\A a, b \in DOMAIN RngErrorCode :
             RngErrorCode[a] = RngErrorCode[b] => a = b)
    /\ (Converting ~> Converted)
    /\ [](Converted => RoundTrips)

\* the conversions to u32 and to rand_core::Error alone
C38_U32AndErrorRoundTrip ==
    (cv # <<>> /\ cv.op \in {"u32", "Error"} /\ cv.pc = "done") => RoundTrips

(************************* properties: reseeding budget **********************)
\* C39: in every reachable state of the reseeding RNG,
\* 1 <= bytes_until_reseed <= threshold, and subtracting the request length
\* from bytes_until_reseed never underflows, for any request length (0 and
\* lengths above the threshold included).
C39_BudgetWithinThreshold ==
    /\ [](srv # <<>> =>
             /\ 1 <= srv.g.rng.bytes_until_reseed
             /\ srv.g.rng.bytes_until_reseed <= srv.g.rng.threshold)
    /\ [][(srv.direct /\ srv'.res = <<"Ok", srv'.len>>) =>
             \/ /\ srv'.len < srv.g.rng.bytes_until_reseed
                /\ srv'.g.rng.bytes_until_reseed =
                      srv.g.rng.bytes_until_reseed - srv'.len
             \/ /\ \/ srv'.len >= srv.g.rng.bytes_until_reseed
                   \/ srv'.len >= srv.g.rng.threshold
                /\ srv'.g.rng.bytes_until_reseed = srv.g.rng.threshold]_vars

\* a request one byte short of the budget has left a budget of one byte
C39_Witness ==
    /\ srv # <<>>
    /\ srv.direct
    /\ srv.op = "try_fill_bytes"
    /\ srv.g.rng.threshold = MaxThreshold
    /\ srv.len = MaxThreshold - 1
    /\ srv.g.rng.bytes_until_reseed = 1

\* C40: when a reseed inside try_fill_bytes fails because the hardware RNG
\* returns an error, the call returns that error, writes no output to dst and
\* leaves the inner generator and bytes_until_reseed as they were.
C40_FailedReseedChangesNothing ==
    [][(/\ srv.direct
        /\ srv'.op = "try_fill_bytes"
        /\ srv'.calls = srv.calls + 1
        /\ srv'.fault.hw_err # "none"
        /\ \/ srv'.len >= srv.g.rng.bytes_until_reseed
           \/ srv'.len >= srv.g.rng.threshold) =>
          /\ srv'.res = <<"Err", srv'.fault.hw_err>>
          /\ srv'.delivered = srv.delivered
          /\ srv'.g.inner = srv.g.inner
          /\ srv'.g.rng = srv.g.rng]_vars

\* a reseed failed on a generator that had handed out part of its budget
C40_Witness ==
    /\ srv # <<>>
    /\ srv.direct
    /\ srv.calls = 2
    /\ srv.res = <<"Err", "TimeoutRefreshCnt">>
    /\ srv.g.out > 0
    /\ srv.g.rng.bytes_until_reseed < srv.g.rng.threshold
    /\ srv.len >= srv.g.rng.bytes_until_reseed

====
